---- MODULE Spec2Model ----
(***************************************************************************)
(* Model of the YouTube archiving IRC bot (src/src/message.rs): the URL    *)
(* normalizer and classifier, the canonicalizer, the session registry      *)
(* reader, the admission check of `archive` and the command dispatcher.    *)
(*                                                                         *)
(* Representation.  A Rust string is a sequence of one-character strings,  *)
(* so prefixes, substrings, character classes and lengths are computed as  *)
(* the code computes them.  Option<T> is a sequence of length 0 or 1.      *)
(* Result<T> is a record [ok, val, err]; an error is [kind, arg].  The     *)
(* text produced by format! is a record [fmt, args] of the template's name *)
(* and its arguments in the order of the template.                         *)
(***************************************************************************)
EXTENDS Integers, Sequences, FiniteSets, TLC

(***************************************************************************)
(* Characters and string helpers (std::str).                               *)
(***************************************************************************)
Digits == {"0","1","2","3","4","5","6","7","8","9"}

UpperHex == Digits \cup {"A","B","C","D","E","F"}

Upper ==
    {"A","B","C","D","E","F","G","H","I","J","K","L","M",
     "N","O","P","Q","R","S","T","U","V","W","X","Y","Z"}

Lower ==
    {"a","b","c","d","e","f","g","h","i","j","k","l","m",
     "n","o","p","q","r","s","t","u","v","w","x","y","z"}

\* [A-Za-z0-9]
Alnum == Upper \cup Lower \cup Digits

\* [-_A-Za-z0-9]
IdChars == Alnum \cup {"-", "_"}

None == <<>>

Some(x) == <<x>>

\* every character of s[a..b] is in class
AllIn(s, a, b, class) == \A j \in a..b : s[j] \in class

\* the pattern p occurs in s at index i (str::starts_with on the suffix)
HasAt(s, p, i) ==
    /\ i >= 1
    /\ i + Len(p) - 1 <= Len(s)
    /\ SubSeq(s, i, i + Len(p) - 1) = p

starts_with(s, p) == HasAt(s, p, 1)

\* the suffix of s from index i on
From(s, i) == SubSeq(s, i, Len(s))

\* indices at which p occurs in s
Occurrences(s, p) == {i \in 1..(Len(s) - Len(p) + 1) : HasAt(s, p, i)}

Min(S) == CHOOSE x \in S : \A y \in S : x <= y

Max(S) == CHOOSE x \in S : \A y \in S : x >= y

\* str::replace: every non-overlapping occurrence of from, leftmost first
RECURSIVE ReplaceFrom(_, _, _, _)
ReplaceFrom(s, from, to, i) ==
    LET later == {j \in Occurrences(s, from) : j >= i}
    IN  IF later = {} THEN From(s, i)
        ELSE LET j == Min(later)
             IN  SubSeq(s, i, j - 1) \o to \o ReplaceFrom(s, from, to, j + Len(from))

replace(s, from, to) == ReplaceFrom(s, from, to, 1)

\* str::replacen(from, to, 1): the first occurrence only
replacen1(s, from, to) ==
    LET occ == Occurrences(s, from)
    IN  IF occ = {} THEN s
        ELSE LET j == Min(occ)
             IN  SubSeq(s, 1, j - 1) \o to \o From(s, j + Len(from))

\* a regex literal matched at index i of s: "." in the pattern is the regex
\* dot (any character but a newline), every other character is itself
ReLitAt(s, pat, i) ==
    /\ i + Len(pat) - 1 <= Len(s)
    /\ \A j \in 1..Len(pat) :
          IF pat[j] = "." THEN s[i + j - 1] # "\n" ELSE s[i + j - 1] = pat[j]

\* s[a..b] matches the regex .*
DotStar(s, a, b) == \A j \in a..b : s[j] # "\n"

\* a tail that must be empty
TailOk_empty(s, i, class) == i = Len(s) + 1

\* the optional tail ([<class>].*)?\z starting at index i of s
TailOk(s, i, class) ==
    \/ i = Len(s) + 1
    \/ i <= Len(s) /\ s[i] \in class /\ DotStar(s, i + 1, Len(s))

(***************************************************************************)
(* Literals of the source.                                                 *)
(***************************************************************************)
WWW_YOUTUBE ==
    <<"h","t","t","p","s",":","/","/","w","w","w",".","y","o","u","t","u","b","e",".","c","o","m","/">>

SESSION_PREFIX == <<"Y","o","u","T","u","b","e","-">>

(***************************************************************************)
(* URL normalizer.                                                         *)
(***************************************************************************)
\* a normalizer whose scheme rule runs last
fix_youtube_url_scheme_last(url) ==
    LET u2 == replace(url, <<"h","t","t","p","s",":","/","/","m",".","y","o","u","t","u","b","e",".","c","o","m","/">>, WWW_YOUTUBE)
        u3 == replace(u2, <<"h","t","t","p","s",":","/","/","y","o","u","t","u","b","e",".","c","o","m","/">>, WWW_YOUTUBE)
        u4 == replace(u3, <<"h","t","t","p","s",":","/","/","y","o","u","t","u",".","b","e","/">>, WWW_YOUTUBE \o <<"w","a","t","c","h","?","v","=">>)
        u5 == replace(u4, <<"?","d","i","s","a","b","l","e","_","p","o","l","y","m","e","r","=","1">>, <<>>)
        u6 == replace(u5, <<"&","d","i","s","a","b","l","e","_","p","o","l","y","m","e","r","=","1">>, <<>>)
    IN  replace(u6, <<"h","t","t","p",":","/","/">>, <<"h","t","t","p","s",":","/","/">>)

fix_youtube_url(url) ==
    LET u1 == replace(url, <<"h","t","t","p",":","/","/">>,
                           <<"h","t","t","p","s",":","/","/">>)
        u2 == replace(u1, <<"h","t","t","p","s",":","/","/","m",".","y","o","u","t","u","b","e",".","c","o","m","/">>,
                          WWW_YOUTUBE)
        u3 == replace(u2, <<"h","t","t","p","s",":","/","/","y","o","u","t","u","b","e",".","c","o","m","/">>,
                          WWW_YOUTUBE)
        u4 == replace(u3, <<"h","t","t","p","s",":","/","/","y","o","u","t","u",".","b","e","/">>,
                          WWW_YOUTUBE \o <<"w","a","t","c","h","?","v","=">>)
        u5 == replace(u4, <<"?","d","i","s","a","b","l","e","_","p","o","l","y","m","e","r","=","1">>, <<>>)
        u6 == replace(u5, <<"&","d","i","s","a","b","l","e","_","p","o","l","y","m","e","r","=","1">>, <<>>)
    IN  u6

(***************************************************************************)
(* Results and errors.                                                     *)
(***************************************************************************)
Ok(v) == [ok |-> TRUE, val |-> v]

Err(kind, arg) == [ok |-> FALSE, err |-> [kind |-> kind, arg |-> arg]]

(***************************************************************************)
(* Descriptor classifier.  A descriptor is [kind, id].                     *)
(***************************************************************************)
Descriptor(kind, id) == [kind |-> kind, id |-> id]

\* the regex  <path>.*[\?&]<key>=(<id shape>)([#\&].*)?\z  : the indices i of
\* the [\?&] at which the rest of the pattern matches
QueryMatches(url, path, key, IdOk(_), idLen) ==
    {i \in (Len(path) + 1)..Len(url) :
        /\ url[i] \in {"?", "&"}
        /\ HasAt(url, key, i + 1)
        /\ i + Len(key) + idLen <= Len(url)
        /\ IdOk(SubSeq(url, i + Len(key) + 1, i + Len(key) + idLen))
        /\ TailOk(url, i + Len(key) + idLen + 1, {"#", "&"})
        /\ DotStar(url, Len(path) + 1, i - 1)}

\* the capture of that regex: .* is greedy, so the last such index is taken
QueryCapture(url, path, key, IdOk(_), idLen) ==
    IF ~ReLitAt(url, path, 1) THEN None
    ELSE LET m == QueryMatches(url, path, key, IdOk, idLen)
         IN  IF m = {} THEN None
             ELSE Some(SubSeq(url, Max(m) + Len(key) + 1, Max(m) + Len(key) + idLen))

VideoIdOk(id) == AllIn(id, 1, Len(id), IdChars)

OldPlaylistIdOk(id) ==
    /\ SubSeq(id, 1, 2) = <<"P","L">>
    /\ AllIn(id, 3, Len(id), UpperHex)

NewPlaylistIdOk(id) ==
    /\ SubSeq(id, 1, 2) = <<"P","L">>
    /\ AllIn(id, 3, Len(id), IdChars)

\* a watch pattern that accepts every path of the host
WATCH_RE_any_path(url) == QueryCapture(url, WWW_YOUTUBE, <<"v","=">>, VideoIdOk, 11)

WATCH_RE(url) ==
    QueryCapture(url, WWW_YOUTUBE \o <<"w","a","t","c","h">>, <<"v","=">>, VideoIdOk, 11)

OLD_PLAYLIST_RE(url) ==
    QueryCapture(url, WWW_YOUTUBE \o <<"p","l","a","y","l","i","s","t">>,
                 <<"l","i","s","t","=">>, OldPlaylistIdOk, 18)

NEW_PLAYLIST_RE(url) ==
    QueryCapture(url, WWW_YOUTUBE \o <<"p","l","a","y","l","i","s","t">>,
                 <<"l","i","s","t","=">>, NewPlaylistIdOk, 34)

\* the channel pattern without its end: it takes the first 24 characters
CHANNEL_RE_truncating(url) ==
    LET path == WWW_YOUTUBE \o <<"c","h","a","n","n","e","l","/">>
        a    == Len(path) + 1
    IN  IF /\ ReLitAt(url, path, 1)
           /\ a + 23 <= Len(url)
           /\ SubSeq(url, a, a + 1) = <<"U","C">>
           /\ AllIn(url, a + 2, a + 23, IdChars)
        THEN Some(SubSeq(url, a, a + 23))
        ELSE None

\* \Ahttps://www.youtube.com/channel/(UC[-_A-Za-z0-9]{22})([/#\?].*)?\z
CHANNEL_RE(url) ==
    LET path == WWW_YOUTUBE \o <<"c","h","a","n","n","e","l","/">>
        a    == Len(path) + 1
    IN  IF /\ ReLitAt(url, path, 1)
           /\ a + 23 <= Len(url)
           /\ SubSeq(url, a, a + 1) = <<"U","C">>
           /\ AllIn(url, a + 2, a + 23, IdChars)
           /\ TailOk(url, a + 24, {"/", "#", "?"})
        THEN Some(SubSeq(url, a, a + 23))
        ELSE None

\* \Ahttps://www.youtube.com/user/([A-Za-z0-9]{1,20})([/#\?].*)?\z
USER_RE(url) ==
    LET path == WWW_YOUTUBE \o <<"u","s","e","r","/">>
        a    == Len(path) + 1
        \* lengths k of a handle after which the tail matches
        ks   == {k \in 1..20 :
                    /\ a + k - 1 <= Len(url)
                    /\ AllIn(url, a, a + k - 1, Alnum)
                    /\ TailOk(url, a + k, {"/", "#", "?"})}
    IN  IF ReLitAt(url, path, 1) /\ ks # {}
        THEN Some(SubSeq(url, a, a + Max(ks) - 1))
        ELSE None

from_url(raw) ==
    LET url == fix_youtube_url(raw)
    IN  IF ~starts_with(url, WWW_YOUTUBE) THEN Err("UnsupportedUrl", url)
        ELSE IF WATCH_RE(url) # None THEN Ok(Descriptor("Video", WATCH_RE(url)[1]))
        ELSE IF OLD_PLAYLIST_RE(url) # None THEN Ok(Descriptor("Playlist", OLD_PLAYLIST_RE(url)[1]))
        ELSE IF NEW_PLAYLIST_RE(url) # None THEN Ok(Descriptor("Playlist", NEW_PLAYLIST_RE(url)[1]))
        ELSE IF CHANNEL_RE(url) # None THEN Ok(Descriptor("Channel", CHANNEL_RE(url)[1]))
        ELSE IF USER_RE(url) # None THEN Ok(Descriptor("User", USER_RE(url)[1]))
        ELSE Err("UnsupportedUrl", url)

\* the patterns of from_url in the order of its tests, and their kinds
Shapes == <<"watch", "old", "new", "channel", "user">>

KindOfShape == [watch |-> "Video", old |-> "Playlist", new |-> "Playlist",
                channel |-> "Channel", user |-> "User"]

\* the capture of a pattern in a normalized URL
ShapeCapture(shape, url) ==
    CASE shape = "watch"   -> WATCH_RE(url)
      [] shape = "old"     -> OLD_PLAYLIST_RE(url)
      [] shape = "new"     -> NEW_PLAYLIST_RE(url)
      [] shape = "channel" -> CHANNEL_RE(url)
      [] shape = "user"    -> USER_RE(url)

\* the patterns that match the normalized URL
matching_shapes(raw) ==
    LET url == fix_youtube_url(raw)
    IN  IF ~starts_with(url, WWW_YOUTUBE) THEN {}
        ELSE {Shapes[k] : k \in {j \in 1..Len(Shapes) : ShapeCapture(Shapes[j], url) # None}}

\* from_url with its patterns tested in the given order
from_url_in_order(order, raw) ==
    LET url  == fix_youtube_url(raw)
        hits == {i \in 1..Len(order) : order[i] \in matching_shapes(raw)}
    IN  IF hits = {} THEN Err("UnsupportedUrl", url)
        ELSE Ok(Descriptor(KindOfShape[order[Min(hits)]],
                           ShapeCapture(order[Min(hits)], url)[1]))

\* YoutubeDescriptor::to_url
descriptor_to_url(d) ==
    CASE d.kind = "User"     -> WWW_YOUTUBE \o <<"u","s","e","r","/">> \o d.id \o <<"/","v","i","d","e","o","s">>
      [] d.kind = "Channel"  -> WWW_YOUTUBE \o <<"c","h","a","n","n","e","l","/">> \o d.id \o <<"/","v","i","d","e","o","s">>
      [] d.kind = "Playlist" -> WWW_YOUTUBE \o <<"p","l","a","y","l","i","s","t","?","l","i","s","t","=">> \o d.id
      [] d.kind = "Video"    -> WWW_YOUTUBE \o <<"w","a","t","c","h","?","v","=">> \o d.id

(***************************************************************************)
(* External processes.  The response of one process::Command::output() is  *)
(* [started, utf8, stdout]: whether the program could be started, whether  *)
(* its stdout is valid UTF-8, and the stdout text.  A call made by the     *)
(* handler is logged as [ev, prog, fixed, args]: the program, its constant *)
(* arguments and its variable arguments, each in the order of the source.  *)
(***************************************************************************)
Call(prog, fixed, args) == [ev |-> "call", prog |-> prog, fixed |-> fixed, args |-> args]

\* a value and the external calls made to get it
Ret(res, calls) == [res |-> res, calls |-> calls]

\* a panic (unwrap on None/Err): it unwinds through every caller
Panic == Err("panic", <<>>)

IsPanic(r) == ~r.ok /\ r.err.kind = "panic"

\* b ran after a
After(a, b) == Ret(b.res, a.calls \o b.calls)

\* a? for a plain result a, then F of its value
Try(a, F(_)) == IF ~a.ok THEN Ret(a, <<>>) ELSE F(a.val)

\* a? for a result a that made calls, then F of its value
Bind(a, F(_)) == IF ~a.res.ok THEN a ELSE After(a, F(a.res.val))

\* a value obtained without a call
Pure(res) == Ret(res, <<>>)

contents_for_url(url, resp) ==
    Ret(IF ~resp.started THEN Err("Io", <<>>)
        ELSE IF ~resp.utf8 THEN Err("Utf8", <<>>)
        ELSE Ok(resp.stdout),
        <<Call("get-youtube-page", <<>>, <<url>>)>>)

\* index of the first double quote of s at or after index a, 0 if none
FirstQuote(s, a) ==
    LET qs == {q \in a..Len(s) : s[q] = "\""}
    IN  IF qs = {} THEN 0 ELSE Min(qs)

\* the regex  <open>([^"]+)">  searched in s: its capture at the leftmost match
TagCapture(s, open) ==
    LET Matches(i) ==
            LET q == FirstQuote(s, i + Len(open))
            IN  /\ ReLitAt(s, open, i)
                /\ q > i + Len(open)
                /\ q + 1 <= Len(s)
                /\ s[q + 1] = ">"
        starts == {i \in 1..Len(s) : Matches(i)}
    IN  IF starts = {} THEN None
        ELSE LET a == Min(starts) + Len(open)
             IN  Some(SubSeq(s, a, FirstQuote(s, a) - 1))

\* <link itemprop="url" href="http://www.youtube.com/user/([^"]+)">
extract_username(page_contents) ==
    TagCapture(page_contents,
        <<"<","l","i","n","k"," ","i","t","e","m","p","r","o","p","=","\"","u","r","l","\""," ",
          "h","r","e","f","=","\"","h","t","t","p",":","/","/","w","w","w",".","y","o","u","t","u","b","e",
          ".","c","o","m","/","u","s","e","r","/">>)

\* <meta itemprop="channelId" content="([^"]+)">
CHANNEL_META_RE(page_contents) ==
    TagCapture(page_contents,
        <<"<","m","e","t","a"," ","i","t","e","m","p","r","o","p","=","\"","c","h","a","n","n","e","l","I","d","\""," ",
          "c","o","n","t","e","n","t","=","\"">>)

\*  ytplayer = .+?\\"channelId\\":\\"([^"]+)\\"   (the page text holds \" )
CHANNEL_VIDEO_DETAILS_RE(page_contents) ==
    LET s    == page_contents
        open == <<" ","y","t","p","l","a","y","e","r"," ","="," ">>
        key  == <<"\\","\"","c","h","a","n","n","e","l","I","d","\\","\"",":","\\","\"">>
        \* the capture starting at c ends before the \" that holds the first quote
        CapOk(c) ==
            LET q == FirstQuote(s, c)
            IN  q >= c + 2 /\ s[q - 1] = "\\"
        \* indices of the key after the lazy .+? begun at i
        Keys(i) ==
            {k \in (i + Len(open) + 1)..Len(s) :
                /\ HasAt(s, key, k)
                /\ DotStar(s, i + Len(open), k - 1)
                /\ CapOk(k + Len(key))}
        starts == {i \in 1..Len(s) : HasAt(s, open, i) /\ Keys(i) # {}}
    IN  IF starts = {} THEN None
        ELSE LET c == Min(Keys(Min(starts))) + Len(key)
             IN  Some(SubSeq(s, c, FirstQuote(s, c) - 2))

extract_channel_id(page_contents) ==
    IF CHANNEL_META_RE(page_contents) # None THEN Ok(CHANNEL_META_RE(page_contents)[1])
    ELSE IF CHANNEL_VIDEO_DETAILS_RE(page_contents) # None
         THEN Ok(CHANNEL_VIDEO_DETAILS_RE(page_contents)[1])
    ELSE Err("CouldNotGetChannelIdentifier", <<>>)

(***************************************************************************)
(* Canonicalizer.  A canonical descriptor is [kind, id, folder].           *)
(***************************************************************************)
Canonical(kind, id, folder) == [kind |-> kind, id |-> id, folder |-> folder]

TEDX_USER == <<"T","E","D","x","T","a","l","k","s">>

\* username -> folder
FOLDER_EXCEPTIONS ==
    [u \in {TEDX_USER} |->
        <<"U","C","s","T","0","Y","I","q","w","n","p","J","C","M","-","m","x","7","-","g","S","A","4","Q">>]

\* the username as folder, whatever the table holds
canonical_user_plain(username) == Canonical("User", username, username)

\* the Some(username) arm
canonical_user(username) ==
    Canonical("User", username,
              IF username \in DOMAIN FOLDER_EXCEPTIONS THEN FOLDER_EXCEPTIONS[username]
              ELSE username)

\* the match on the username found in the page
canonical_of_page(contents, username) ==
    IF username = None
    THEN Try(extract_channel_id(contents),
             LAMBDA channel_id : Pure(Ok(Canonical("Channel", channel_id, channel_id))))
    ELSE Pure(Ok(canonical_user(username[1])))

\* a Channel | User arm that fetches the page again for the channel id
canonicalize_channel_refetching(d, resp) ==
    Bind(contents_for_url(descriptor_to_url(d), resp),
         LAMBDA contents :
           IF extract_username(contents) = None
           THEN Bind(contents_for_url(descriptor_to_url(d), resp),
                     LAMBDA again : canonical_of_page(again, None))
           ELSE canonical_of_page(contents, extract_username(contents)))

\* the Channel | User arm of canonicalize; resp answers its page fetch
canonicalize_channel(d, resp) ==
    Bind(contents_for_url(descriptor_to_url(d), resp),
         LAMBDA contents : canonical_of_page(contents, extract_username(contents)))

\* the channel id of the video page as folder, without canonicalizing it
canonicalize_flat(d, pages) ==
    CASE d.kind = "Video" ->
            Bind(contents_for_url(descriptor_to_url(d), pages[1]),
                 LAMBDA contents :
                   Try(extract_channel_id(contents),
                       LAMBDA channel_id : Pure(Ok(Canonical("Video", d.id, channel_id)))))
      [] d.kind = "Playlist" -> Pure(Ok(Canonical("Playlist", d.id, d.id)))
      [] d.kind \in {"Channel", "User"} -> canonicalize_channel(d, pages[1])

\* pages[k] answers the k-th page fetch of this call
canonicalize(d, pages) ==
    CASE d.kind = "Video" ->
            Bind(contents_for_url(descriptor_to_url(d), pages[1]),
                 LAMBDA contents :
                   Try(extract_channel_id(contents),
                       LAMBDA channel_id :
                         Bind(canonicalize_channel(Descriptor("Channel", channel_id), pages[2]),
                              LAMBDA ch : Pure(Ok(Canonical("Video", d.id, ch.folder))))))
      [] d.kind = "Playlist" -> Pure(Ok(Canonical("Playlist", d.id, d.id)))
      [] d.kind \in {"Channel", "User"} -> canonicalize_channel(d, pages[1])

\* CanonicalizedYoutubeDescriptor::to_url
canonical_to_url(d) == descriptor_to_url(Descriptor(d.kind, d.id))

(***************************************************************************)
(* Numbers as text (u64::from_str, Display for usize).  TLC's integers are *)
(* 32 bits wide: the width of u64 is decided on the digits (U64Fits), and  *)
(* the value is computed for the numbers of the model, of at most 9 digits.*)
(***************************************************************************)
DigitSeq == <<"0","1","2","3","4","5","6","7","8","9">>

DigitVal(c) == CHOOSE d \in 0..9 : DigitSeq[d + 1] = c

RECURSIVE to_string(_)
to_string(n) ==
    IF n < 10 THEN <<DigitSeq[n + 1]>>
    ELSE to_string(n \div 10) \o <<DigitSeq[(n % 10) + 1]>>

RECURSIVE StripZeros(_)
StripZeros(ds) == IF Len(ds) > 1 /\ ds[1] = "0" THEN StripZeros(Tail(ds)) ELSE ds

\* the digits ds, without leading zeros, denote a number <= u64::MAX
U64Fits(ds) ==
    LET max == <<"1","8","4","4","6","7","4","4","0","7","3","7","0","9","5","5","1","6","1","5">>
        sig == StripZeros(ds)
    IN  \/ Len(sig) < Len(max)
        \/ /\ Len(sig) = Len(max)
           /\ \/ sig = max
              \/ \E i \in 1..Len(max) :
                    /\ SubSeq(sig, 1, i - 1) = SubSeq(max, 1, i - 1)
                    /\ DigitVal(sig[i]) < DigitVal(max[i])

RECURSIVE DigitsValue(_)
DigitsValue(ds) ==
    IF ds = <<>> THEN 0 ELSE 10 * DigitsValue(SubSeq(ds, 1, Len(ds) - 1)) + DigitVal(ds[Len(ds)])

\* str::parse::<u64>: an optional "+", then one or more digits, no overflow
parse_u64(s) ==
    LET ds == IF s # <<>> /\ s[1] = "+" THEN Tail(s) ELSE s
    IN  IF ds # <<>> /\ AllIn(ds, 1, Len(ds), Digits) /\ U64Fits(ds)
        THEN Some(DigitsValue(StripZeros(ds)))
        ELSE None

\* str::lines (no "\r" occurs in the texts of the model)
RECURSIVE LinesFrom(_, _)
LinesFrom(s, i) ==
    IF i > Len(s) THEN <<>>
    ELSE LET nl == {j \in i..Len(s) : s[j] = "\n"}
         IN  IF nl = {} THEN <<From(s, i)>>
             ELSE <<SubSeq(s, i, Min(nl) - 1)>> \o LinesFrom(s, Min(nl) + 1)

lines(s) == LinesFrom(s, 1)

\* str::splitn(2, ' ')
splitn2(s) ==
    LET sp == {j \in 1..Len(s) : s[j] = " "}
    IN  IF sp = {} THEN <<s>>
        ELSE <<SubSeq(s, 1, Min(sp) - 1), From(s, Min(sp) + 1)>>

\* the elements of a sequence of options, in order (Iterator::filter_map)
RECURSIVE Flatten(_)
Flatten(opts) == IF opts = <<>> THEN <<>> ELSE Head(opts) \o Flatten(Tail(opts))

(***************************************************************************)
(* Session registry reader.  A session is [identifier, start_time].        *)
(***************************************************************************)
\* every occurrence of the prefix removed from the name
parse_session_line_strip_all(line) ==
    LET parts      == splitn2(line)
        start_time == parse_u64(parts[1])
    IN  IF start_time = None \/ Len(parts) < 2 THEN [panic |-> TRUE, session |-> None]
        ELSE IF starts_with(parts[2], SESSION_PREFIX)
             THEN [panic |-> FALSE,
                   session |-> Some([identifier |-> replace(parts[2], SESSION_PREFIX, <<>>),
                                     start_time |-> start_time[1]])]
             ELSE [panic |-> FALSE, session |-> None]

\* the closure of filter_map for one line: it panics on a timestamp that is
\* no u64 and on a line without a name
parse_session_line(line) ==
    LET parts      == splitn2(line)
        start_time == parse_u64(parts[1])
    IN  IF start_time = None \/ Len(parts) < 2 THEN [panic |-> TRUE, session |-> None]
        ELSE IF starts_with(parts[2], SESSION_PREFIX)
             THEN [panic |-> FALSE,
                   session |-> Some([identifier |-> replacen1(parts[2], SESSION_PREFIX, <<>>),
                                     start_time |-> start_time[1]])]
             ELSE [panic |-> FALSE, session |-> None]

\* a session listing that is read a second time
get_downloader_sessions_twice(resp) ==
    LET call   == <<Call("tmux", <<"list-sessions", "-F", "#{session_created} #S">>, <<>>)>>
        ls     == lines(resp.stdout)
        parsed == [i \in 1..Len(ls) |-> parse_session_line(ls[i])]
    IN  IF ~resp.started THEN Ret(Err("Io", <<>>), call)
        ELSE IF ~resp.utf8 THEN Ret(Err("Utf8", <<>>), call)
        ELSE IF \E i \in 1..Len(ls) : parsed[i].panic THEN Ret(Panic, call)
        ELSE Ret(Ok(Flatten([i \in 1..Len(ls) |-> parsed[i].session])), call \o call)

get_downloader_sessions(resp) ==
    LET call   == <<Call("tmux", <<"list-sessions", "-F", "#{session_created} #S">>, <<>>)>>
        ls     == lines(resp.stdout)
        parsed == [i \in 1..Len(ls) |-> parse_session_line(ls[i])]
    IN  IF ~resp.started THEN Ret(Err("Io", <<>>), call)
        ELSE IF ~resp.utf8 THEN Ret(Err("Utf8", <<>>), call)
        ELSE IF \E i \in 1..Len(ls) : parsed[i].panic THEN Ret(Panic, call)
        ELSE Ret(Ok(Flatten([i \in 1..Len(ls) |-> parsed[i].session])), call)

(***************************************************************************)
(* Replies: the text of format! as [fmt, args, list].                      *)
(***************************************************************************)
Fmt(fmt, args) == [fmt |-> fmt, args |-> args, list |-> <<>>]

logs_url(folder) ==
    <<"h","t","t","p","s",":","/","/","y","a",".","b","o","r","g",".","x","y","z","/",
      "l","o","g","s","/","d","l","/">> \o folder \o <<"/">>

\* a limit_for_user that ignores user_limits
limit_default(user, rtd) == rtd.task_limit

\* rtd.conf: [task_limit, user_limits, user_highlights, command_channel]
limit_for_user(user, rtd) ==
    IF user \in DOMAIN rtd.user_limits THEN rtd.user_limits[user] ELSE rtd.task_limit

(***************************************************************************)
(* Admission and launch.                                                   *)
(***************************************************************************)
\* one launcher invocation; resp answers it
launch(command, folder, arg, resp) ==
    Ret(IF ~resp.started THEN Err("Io", <<>>)
        ELSE IF ~resp.utf8 THEN Err("Utf8", <<>>)
        ELSE Ok(<<>>),
        <<Call(command, <<>>, <<folder, arg>>)>>)

\* an archive that hands the video launcher the URL as it was given
archive_original_url(original_url, descriptor, video_size, user, rtd, sess, lresp) ==
    LET folder   == descriptor.folder
        sessions == get_downloader_sessions(sess)
        grabbing == Ok(Fmt("Grabbing", <<original_url, folder, logs_url(folder)>>))
    IN  IF ~sessions.res.ok THEN sessions
        ELSE IF \E i \in 1..Len(sessions.res.val) : sessions.res.val[i].identifier = folder
        THEN Ret(Ok(Fmt("CantArchiveSameFolder", <<original_url, folder>>)), sessions.calls)
        ELSE IF descriptor.kind = "Video"
        THEN LET command == IF video_size = "Normal" THEN "grab-youtube-video"
                            ELSE "grab-youtube-video-big-video"
                 output  == launch(command, folder, original_url, lresp)
             IN  Ret(IF output.res.ok THEN grabbing ELSE output.res,
                     sessions.calls \o output.calls)
        ELSE LET tasks_limit == limit_for_user(user, rtd)
                 command     == IF video_size = "Normal" THEN "grab-youtube-channel"
                                ELSE "grab-youtube-channel-big-videos"
                 output      == launch(command, folder, to_string(999999), lresp)
             IN  IF Len(sessions.res.val) >= tasks_limit
                 THEN Ret(Ok(Fmt("CantArchiveTooManyTasks",
                                 <<original_url, to_string(tasks_limit)>>)),
                          sessions.calls)
                 ELSE Ret(IF output.res.ok THEN grabbing ELSE output.res,
                          sessions.calls \o output.calls)

\* an archive without the check of the folder
archive_unchecked_folder(original_url, descriptor, video_size, user, rtd, sess, lresp) ==
    LET folder   == descriptor.folder
        sessions == get_downloader_sessions(sess)
        command  == IF descriptor.kind = "Video"
                    THEN IF video_size = "Normal" THEN "grab-youtube-video"
                         ELSE "grab-youtube-video-big-video"
                    ELSE IF video_size = "Normal" THEN "grab-youtube-channel"
                         ELSE "grab-youtube-channel-big-videos"
        output   == launch(command, folder,
                           IF descriptor.kind = "Video" THEN canonical_to_url(descriptor)
                           ELSE to_string(999999), lresp)
    IN  IF ~sessions.res.ok THEN sessions
        ELSE IF descriptor.kind # "Video" /\ Len(sessions.res.val) >= limit_for_user(user, rtd)
        THEN Ret(Ok(Fmt("CantArchiveTooManyTasks",
                        <<original_url, to_string(limit_for_user(user, rtd))>>)),
                 sessions.calls)
        ELSE Ret(IF output.res.ok
                 THEN Ok(Fmt("Grabbing", <<original_url, folder, logs_url(folder)>>))
                 ELSE output.res,
                 sessions.calls \o output.calls)

\* an archive whose limit check comes before its check of the folder
archive_limit_first(original_url, descriptor, video_size, user, rtd, sess, lresp) ==
    LET folder   == descriptor.folder
        sessions == get_downloader_sessions(sess)
        command  == IF descriptor.kind = "Video"
                    THEN IF video_size = "Normal" THEN "grab-youtube-video"
                         ELSE "grab-youtube-video-big-video"
                    ELSE IF video_size = "Normal" THEN "grab-youtube-channel"
                         ELSE "grab-youtube-channel-big-videos"
        output   == launch(command, folder,
                           IF descriptor.kind = "Video" THEN canonical_to_url(descriptor)
                           ELSE to_string(999999), lresp)
    IN  IF ~sessions.res.ok THEN sessions
        ELSE IF descriptor.kind # "Video" /\ Len(sessions.res.val) >= limit_for_user(user, rtd)
        THEN Ret(Ok(Fmt("CantArchiveTooManyTasks",
                        <<original_url, to_string(limit_for_user(user, rtd))>>)),
                 sessions.calls)
        ELSE IF \E i \in 1..Len(sessions.res.val) : sessions.res.val[i].identifier = folder
        THEN Ret(Ok(Fmt("CantArchiveSameFolder", <<original_url, folder>>)), sessions.calls)
        ELSE Ret(IF output.res.ok
                 THEN Ok(Fmt("Grabbing", <<original_url, folder, logs_url(folder)>>))
                 ELSE output.res,
                 sessions.calls \o output.calls)

\* sess answers the session listing, lresp the launcher
archive(original_url, descriptor, video_size, user, rtd, sess, lresp) ==
    LET folder   == descriptor.folder
        sessions == get_downloader_sessions(sess)
        grabbing == Ok(Fmt("Grabbing", <<original_url, folder, logs_url(folder)>>))
    IN  IF ~sessions.res.ok THEN sessions
        ELSE IF \E i \in 1..Len(sessions.res.val) : sessions.res.val[i].identifier = folder
        THEN Ret(Ok(Fmt("CantArchiveSameFolder", <<original_url, folder>>)), sessions.calls)
        ELSE IF descriptor.kind = "Video"
        THEN LET command == IF video_size = "Normal" THEN "grab-youtube-video"
                            ELSE "grab-youtube-video-big-video"
                 output  == launch(command, folder, canonical_to_url(descriptor), lresp)
             IN  Ret(IF output.res.ok THEN grabbing ELSE output.res,
                     sessions.calls \o output.calls)
        ELSE LET tasks_limit == limit_for_user(user, rtd)
                 command     == IF video_size = "Normal" THEN "grab-youtube-channel"
                                ELSE "grab-youtube-channel-big-videos"
                 output      == launch(command, folder, to_string(999999), lresp)
             IN  IF Len(sessions.res.val) >= tasks_limit
                 THEN Ret(Ok(Fmt("CantArchiveTooManyTasks",
                                 <<original_url, to_string(tasks_limit)>>)),
                          sessions.calls)
                 ELSE Ret(IF output.res.ok THEN grabbing ELSE output.res,
                          sessions.calls \o output.calls)

\* an assert_valid_task_name that accepts every name
accept_any_task_name(task) == Ok(<<>>)

\* \A[-_A-Za-z0-9]+\z
assert_valid_task_name(task) ==
    IF task # <<>> /\ AllIn(task, 1, Len(task), IdChars) THEN Ok(<<>>)
    ELSE Err("InvalidTaskName", task)

\* an abort that reports the failure of tmux to find the session
abort_confirming(task, resp) ==
    IF ~assert_valid_task_name(task).ok THEN Ret(assert_valid_task_name(task), <<>>)
    ELSE LET session == SESSION_PREFIX \o task
         IN  Ret(IF ~resp.started \/ resp.status # 0 THEN Err("Io", <<>>)
                 ELSE Ok(Fmt("Aborted", <<task>>)),
                 <<Call("tmux", <<"send-keys", "-t", "C-c">>, <<session>>)>>)

\* resp answers tmux send-keys
abort(task, resp) ==
    IF ~assert_valid_task_name(task).ok THEN Ret(assert_valid_task_name(task), <<>>)
    ELSE LET session == SESSION_PREFIX \o task
         IN  Ret(IF ~resp.started THEN Err("Io", <<>>)
                 ELSE Ok(Fmt("Aborted", <<task>>)),
                 <<Call("tmux", <<"send-keys", "-t", "C-c">>, <<session>>)>>)

(***************************************************************************)
(* Stash listing.                                                          *)
(***************************************************************************)
\* resp answers the folder lister
get_file_listing(folder, resp) ==
    Ret(IF ~resp.started THEN Err("Io", <<>>)
        ELSE IF ~resp.utf8 THEN Err("Utf8", <<>>)
        ELSE Ok(lines(resp.stdout)),
        <<Call("ts", <<"ls", "-n", "YouTube", "-j", "-t">>, <<folder>>)>>)

\* s.rsplitn(2, '.') ... first(): the text after the last dot, all of s without a dot
extension(s) ==
    LET dots == {j \in 1..Len(s) : s[j] = "."}
    IN  IF dots = {} THEN s ELSE From(s, Max(dots) + 1)

VideoExtensions ==
    {<<"m","p","4">>, <<"w","e","b","m">>, <<"f","l","v">>, <<"m","k","v">>, <<"v","i","d","e","o">>}

IsVideoFile(s) == extension(s) \in VideoExtensions

check_folder(folder, resp) ==
    IF ~assert_valid_task_name(folder).ok THEN Ret(assert_valid_task_name(folder), <<>>)
    ELSE LET listing == get_file_listing(folder, resp)
             videos  == SelectSeq(listing.res.val, IsVideoFile)
             latest  == SubSeq(videos, 1, IF Len(videos) < 4 THEN Len(videos) ELSE 4)
         IN  IF ~listing.res.ok THEN Ret(Err("ErrorListingFiles", folder), listing.calls)
             ELSE Ret(Ok([fmt  |-> "stash",
                          args |-> <<to_string(Len(videos)), folder, logs_url(folder)>>,
                          list |-> latest]),
                      listing.calls)

\* a stash check that lists the folder of a video too
check_stash_listing(descriptor, resp) == check_folder(descriptor.folder, resp)

\* a video refused with an error of another kind
check_stash_unsupported(descriptor, resp) ==
    IF descriptor.kind = "Video"
    THEN Ret(Err("Unsupported", <<"/","s"," ","o","n"," ","/","w","a","t","c","h","?"," ","U","R","L">>), <<>>)
    ELSE check_folder(descriptor.folder, resp)

check_stash(descriptor, resp) ==
    IF descriptor.kind = "Video"
    THEN Ret(Err("NotImplemented", <<"/","s"," ","o","n"," ","/","w","a","t","c","h","?"," ","U","R","L">>), <<>>)
    ELSE check_folder(descriptor.folder, resp)

(***************************************************************************)
(* Scripts, status, help.                                                  *)
(***************************************************************************)
stop_scripts(resp) ==
    Ret(IF ~resp.started THEN Err("Io", <<>>) ELSE Ok(Fmt("StoppedAllScripts", <<>>)),
        <<Call("stop-all-youtube-scripts", <<>>, <<>>)>>)

cont_scripts(resp) ==
    Ret(IF ~resp.started THEN Err("Io", <<>>) ELSE Ok(Fmt("ContinuedAllScripts", <<>>)),
        <<Call("cont-all-youtube-scripts", <<>>, <<>>)>>)

\* a status that pauses the scripts before it counts them
get_status_pausing(rtd, sess, resp) ==
    LET sessions    == get_downloader_sessions(sess)
        scripts     == <<Call("stop-all-youtube-scripts", <<>>, <<>>),
                         Call("get-running-youtube-scripts", <<>>, <<>>)>>
        num_scripts == Cardinality({j \in 1..Len(resp.stdout) : resp.stdout[j] = "\n"})
    IN  IF ~sessions.res.ok THEN sessions
        ELSE IF ~resp.started THEN Ret(Err("Io", <<>>), sessions.calls \o scripts)
        ELSE Ret(Ok(Fmt("Status", <<to_string(Len(sessions.res.val)),
                                    to_string(rtd.task_limit),
                                    to_string(num_scripts)>>)),
                 sessions.calls \o scripts)

\* sess answers the session listing, resp get-running-youtube-scripts
get_status(rtd, sess, resp) ==
    LET sessions    == get_downloader_sessions(sess)
        scripts     == <<Call("get-running-youtube-scripts", <<>>, <<>>)>>
        num_scripts == Cardinality({j \in 1..Len(resp.stdout) : resp.stdout[j] = "\n"})
    IN  IF ~sessions.res.ok THEN sessions
        ELSE IF ~resp.started THEN Ret(Err("Io", <<>>), sessions.calls \o scripts)
        ELSE Ret(Ok(Fmt("Status", <<to_string(Len(sessions.res.val)),
                                    to_string(rtd.task_limit),
                                    to_string(num_scripts)>>)),
                 sessions.calls \o scripts)

get_help == Ret(Ok(Fmt("Usage", <<>>)), <<>>)

(***************************************************************************)
(* Highlighting and replies.  A styled letter is one character, written    *)
(* "<style>:<letter>".                                                     *)
(***************************************************************************)
ALPHA_REGULAR ==
    <<"A","B","C","D","E","F","G","H","I","J","K","L","M","N","O","P","Q","R","S","T","U","V","W","X",
      "Y","Z","a","b","c","d","e","f","g","h","i","j","k","l","m","n","o","p","q","r","s","t","u",
      "v","w","x","y","z">>

Styled(style) == [i \in 1..Len(ALPHA_REGULAR) |-> style \o ":" \o ALPHA_REGULAR[i]]

ALPHA_FRAKTUR == Styled("fraktur")

ALPHA_FRAKTUR_BOLD == Styled("fraktur-bold")

ALPHA_SCRIPT == Styled("script")

ALPHA_BOLD == Styled("bold")

ALPHA_ITALIC == Styled("italic")

ALPHA_BOLD_ITALIC == Styled("bold-italic")

\* a replacement that drops the characters it has no replacement for
replace_matching_characters_dropping(input_str, from_set, to_set) ==
    LET n == IF Len(from_set) < Len(to_set) THEN Len(from_set) ELSE Len(to_set)
        Known(c) == \E i \in 1..n : from_set[i] = c
        kept == SelectSeq(input_str, Known)
    IN  [j \in 1..Len(kept) |-> to_set[Max({i \in 1..n : from_set[i] = kept[j]})]]

\* the map is collected from the zipped pairs: a later pair of a repeated
\* key replaces the earlier one
replace_matching_characters(input_str, from_set, to_set) ==
    LET n == IF Len(from_set) < Len(to_set) THEN Len(from_set) ELSE Len(to_set)
        Map(c) ==
            LET at == {i \in 1..n : from_set[i] = c}
            IN  IF at = {} THEN c ELSE to_set[Max(at)]
    IN  [j \in 1..Len(input_str) |-> Map(input_str[j])]

highlight_for_user(user, rtd) ==
    IF user \in DOMAIN rtd.user_highlights
    THEN LET mode == rtd.user_highlights[user]
         IN  CASE mode = "Normal"      -> user
               [] mode = "Fraktur"     -> replace_matching_characters(user, ALPHA_REGULAR, ALPHA_FRAKTUR)
               [] mode = "FrakturBold" -> replace_matching_characters(user, ALPHA_REGULAR, ALPHA_FRAKTUR_BOLD)
               [] mode = "Script"      -> replace_matching_characters(user, ALPHA_REGULAR, ALPHA_SCRIPT)
               [] mode = "Bold"        -> replace_matching_characters(user, ALPHA_REGULAR, ALPHA_BOLD)
               [] mode = "Italic"      -> replace_matching_characters(user, ALPHA_REGULAR, ALPHA_ITALIC)
               [] mode = "BoldItalic"  -> replace_matching_characters(user, ALPHA_REGULAR, ALPHA_BOLD_ITALIC)
    ELSE user

\* client.send_privmsg(channel, "<who>: <body>") or "<who>: error: <body>"
Privmsg(channel, who, error, body) ==
    [ev |-> "privmsg", to |-> channel, who |-> who, error |-> error, body |-> body]

\* Display of an error: its message with its payload
ErrorText(err) == Fmt(err.kind, <<err.arg>>)

send_reply(channel, user, result, rtd) ==
    IF result.ok THEN Privmsg(channel, highlight_for_user(user, rtd), FALSE, result.val)
    ELSE Privmsg(channel, highlight_for_user(user, rtd), TRUE, ErrorText(result.err))

(***************************************************************************)
(* Command dispatcher.  o holds the responses of the external processes a  *)
(* command may run: [pages, ls, sess, proc, launch].                       *)
(***************************************************************************)
\* an extract_url that takes the last token
extract_url_last(msg) ==
    LET sp  == {j \in 1..Len(msg) : msg[j] = " "}
        url == IF sp = {} THEN msg ELSE From(msg, Max(sp) + 1)
    IN  IF Len(url) <= 200 THEN Ok(url) ELSE Err("UrlTooLong", <<>>)

\* msg.split(' ').take(2).last(): the second token, the first without a space
extract_url(msg) ==
    LET sp     == {j \in 1..Len(msg) : msg[j] = " "}
        rest   == From(msg, Min(sp) + 1)
        sp2    == {j \in 1..Len(rest) : rest[j] = " "}
        url    == IF sp = {} THEN msg
                  ELSE IF sp2 = {} THEN rest
                  ELSE SubSeq(rest, 1, Min(sp2) - 1)
    IN  IF Len(url) <= 200 THEN Ok(url) ELSE Err("UrlTooLong", <<>>)

\* vec![a, b, ..]: the elements are evaluated in order; a panic unwinds at once
RECURSIVE Vec(_)
Vec(rets) ==
    IF rets = <<>> THEN Ret(Ok(<<>>), <<>>)
    ELSE LET first == Head(rets)
             rest  == Vec(Tail(rets))
         IN  IF IsPanic(first.res) THEN Ret(Panic, first.calls)
             ELSE IF IsPanic(rest.res) THEN Ret(Panic, first.calls \o rest.calls)
             ELSE Ret(Ok(<<first.res>> \o rest.res.val), first.calls \o rest.calls)

\* a ? b: b runs after a succeeded
Then(a, b) == IF ~a.res.ok THEN a ELSE Ret(b.res, a.calls \o b.calls)

\* from_url(url)?.canonicalize()?
resolve(url, o) == Try(from_url(url), LAMBDA d : canonicalize(d, o.pages))

\* the arm of "!s "
stash_arm(msg, o) ==
    Try(extract_url(msg),
        LAMBDA url_or_folder :
          IF \/ starts_with(url_or_folder, <<"h","t","t","p","s",":","/","/">>)
             \/ starts_with(url_or_folder, <<"h","t","t","p",":","/","/">>)
          THEN Bind(resolve(url_or_folder, o),
                    LAMBDA descriptor : Vec(<<check_stash(descriptor, o.ls)>>))
          ELSE Vec(<<check_folder(url_or_folder, o.ls)>>))

\* an arm that checks the authorization after it resolved the URL
archive_arm_late_check(msg, user, rtd, check_authorization, o, video_size, with_stash) ==
    Try(extract_url(msg),
        LAMBDA url :
          Bind(resolve(url, o),
               LAMBDA descriptor :
                 Then(check_authorization,
                      Vec((IF with_stash THEN <<check_stash(descriptor, o.ls)>> ELSE <<>>)
                          \o <<archive(url, descriptor, video_size, user, rtd,
                                       o.sess, o.launch)>>))))

\* the arms of "!a ", "!sa ", "!averybig " and "!saverybig "
archive_arm(msg, user, rtd, check_authorization, o, video_size, with_stash) ==
    Then(check_authorization,
         Try(extract_url(msg),
             LAMBDA url :
               Bind(resolve(url, o),
                    LAMBDA descriptor :
                      Vec((IF with_stash THEN <<check_stash(descriptor, o.ls)>> ELSE <<>>)
                          \o <<archive(url, descriptor, video_size, user, rtd,
                                       o.sess, o.launch)>>))))

\* a matcher whose prefixes lack the trailing space
matching_arms_spaceless(message) ==
    {k \in 1..4 : message = <<<<"!","h","e","l","p">>, <<"!","s","t","a","t","u","s">>, <<"!","s","t","o","p","s","c","r","i","p","t","s">>, <<"!","c","o","n","t","s","c","r","i","p","t","s">>>>[k]}
    \cup {4 + k : k \in {j \in 1..6 :
                          starts_with(message, <<<<"!","s">>, <<"!","a">>, <<"!","s","a">>, <<"!","a","v","e","r","y","b","i","g">>,
                                                 <<"!","s","a","v","e","r","y","b","i","g">>, <<"!","a","b","o","r","t">>>>[j])}}

\* the arms of the match in dispatch_message, numbered in source order,
\* whose pattern or guard accepts the message
matching_arms(message) ==
    {k \in 1..4 : message = <<<<"!","h","e","l","p">>, <<"!","s","t","a","t","u","s">>, <<"!","s","t","o","p","s","c","r","i","p","t","s">>, <<"!","c","o","n","t","s","c","r","i","p","t","s">>>>[k]}
    \cup {4 + k : k \in {j \in 1..6 :
                          starts_with(message, <<<<"!","s"," ">>, <<"!","a"," ">>, <<"!","s","a"," ">>, <<"!","a","v","e","r","y","b","i","g"," ">>,
                                                 <<"!","s","a","v","e","r","y","b","i","g"," ">>, <<"!","a","b","o","r","t"," ">>>>[j])}}

\* the body of arm k
arm(k, message, user, rtd, check_authorization, o) ==
    CASE k = 1  -> Vec(<<get_help>>)
      [] k = 2  -> Vec(<<get_status(rtd, o.sess, o.proc)>>)
      [] k = 3  -> Then(check_authorization, Vec(<<stop_scripts(o.proc)>>))
      [] k = 4  -> Then(check_authorization, Vec(<<cont_scripts(o.proc)>>))
      [] k = 5  -> stash_arm(message, o)
      [] k = 6  -> archive_arm(message, user, rtd, check_authorization, o, "Normal", FALSE)
      [] k = 7  -> archive_arm(message, user, rtd, check_authorization, o, "Normal", TRUE)
      [] k = 8  -> archive_arm(message, user, rtd, check_authorization, o, "VeryBig", FALSE)
      [] k = 9  -> archive_arm(message, user, rtd, check_authorization, o, "VeryBig", TRUE)
      [] k = 10 -> Then(check_authorization,
                        Try(extract_url(message), LAMBDA task : Vec(<<abort(task, o.proc)>>)))

\* the match with its arms tested in the given order
dispatch_in_order(order, message, user, rtd, check_authorization, o) ==
    LET hits == {i \in 1..Len(order) : order[i] \in matching_arms(message)}
    IN  IF hits = {} THEN Vec(<<>>)
        ELSE arm(order[Min(hits)], message, user, rtd, check_authorization, o)

\* !status behind the authorization check
dispatch_message_strict(message, user, rtd, check_authorization, o) ==
    IF message = <<"!","h","e","l","p">> THEN Vec(<<get_help>>)
    ELSE IF message = <<"!","s","t","a","t","u","s">>
    THEN Then(check_authorization, Vec(<<get_status(rtd, o.sess, o.proc)>>))
    ELSE IF message = <<"!","s","t","o","p","s","c","r","i","p","t","s">>
    THEN Then(check_authorization, Vec(<<stop_scripts(o.proc)>>))
    ELSE IF message = <<"!","c","o","n","t","s","c","r","i","p","t","s">>
    THEN Then(check_authorization, Vec(<<cont_scripts(o.proc)>>))
    ELSE IF starts_with(message, <<"!","s"," ">>)
    THEN stash_arm(message, o)
    ELSE IF starts_with(message, <<"!","a"," ">>)
    THEN archive_arm(message, user, rtd, check_authorization, o, "Normal", FALSE)
    ELSE IF starts_with(message, <<"!","s","a"," ">>)
    THEN archive_arm(message, user, rtd, check_authorization, o, "Normal", TRUE)
    ELSE IF starts_with(message, <<"!","a","v","e","r","y","b","i","g"," ">>)
    THEN archive_arm(message, user, rtd, check_authorization, o, "VeryBig", FALSE)
    ELSE IF starts_with(message, <<"!","s","a","v","e","r","y","b","i","g"," ">>)
    THEN archive_arm(message, user, rtd, check_authorization, o, "VeryBig", TRUE)
    ELSE IF starts_with(message, <<"!","a","b","o","r","t"," ">>)
    THEN Then(check_authorization,
              Try(extract_url(message), LAMBDA task : Vec(<<abort(task, o.proc)>>)))
    ELSE Vec(<<>>)

\* !help and !status matched as prefixes
dispatch_message_lax(message, user, rtd, check_authorization, o) ==
    IF starts_with(message, <<"!","h","e","l","p">>) THEN Vec(<<get_help>>)
    ELSE IF starts_with(message, <<"!","s","t","a","t","u","s">>)
    THEN Vec(<<get_status(rtd, o.sess, o.proc)>>)
    ELSE IF message = <<"!","s","t","o","p","s","c","r","i","p","t","s">>
    THEN Then(check_authorization, Vec(<<stop_scripts(o.proc)>>))
    ELSE IF message = <<"!","c","o","n","t","s","c","r","i","p","t","s">>
    THEN Then(check_authorization, Vec(<<cont_scripts(o.proc)>>))
    ELSE IF starts_with(message, <<"!","s"," ">>)
    THEN stash_arm(message, o)
    ELSE IF starts_with(message, <<"!","a"," ">>)
    THEN archive_arm(message, user, rtd, check_authorization, o, "Normal", FALSE)
    ELSE IF starts_with(message, <<"!","s","a"," ">>)
    THEN archive_arm(message, user, rtd, check_authorization, o, "Normal", TRUE)
    ELSE IF starts_with(message, <<"!","a","v","e","r","y","b","i","g"," ">>)
    THEN archive_arm(message, user, rtd, check_authorization, o, "VeryBig", FALSE)
    ELSE IF starts_with(message, <<"!","s","a","v","e","r","y","b","i","g"," ">>)
    THEN archive_arm(message, user, rtd, check_authorization, o, "VeryBig", TRUE)
    ELSE IF starts_with(message, <<"!","a","b","o","r","t"," ">>)
    THEN Then(check_authorization,
              Try(extract_url(message), LAMBDA task : Vec(<<abort(task, o.proc)>>)))
    ELSE Vec(<<>>)

dispatch_message(message, user, rtd, check_authorization, o) ==
    IF message = <<"!","h","e","l","p">> THEN Vec(<<get_help>>)
    ELSE IF message = <<"!","s","t","a","t","u","s">>
    THEN Vec(<<get_status(rtd, o.sess, o.proc)>>)
    ELSE IF message = <<"!","s","t","o","p","s","c","r","i","p","t","s">>
    THEN Then(check_authorization, Vec(<<stop_scripts(o.proc)>>))
    ELSE IF message = <<"!","c","o","n","t","s","c","r","i","p","t","s">>
    THEN Then(check_authorization, Vec(<<cont_scripts(o.proc)>>))
    ELSE IF starts_with(message, <<"!","s"," ">>)
    THEN stash_arm(message, o)
    ELSE IF starts_with(message, <<"!","a"," ">>)
    THEN archive_arm(message, user, rtd, check_authorization, o, "Normal", FALSE)
    ELSE IF starts_with(message, <<"!","s","a"," ">>)
    THEN archive_arm(message, user, rtd, check_authorization, o, "Normal", TRUE)
    ELSE IF starts_with(message, <<"!","a","v","e","r","y","b","i","g"," ">>)
    THEN archive_arm(message, user, rtd, check_authorization, o, "VeryBig", FALSE)
    ELSE IF starts_with(message, <<"!","s","a","v","e","r","y","b","i","g"," ">>)
    THEN archive_arm(message, user, rtd, check_authorization, o, "VeryBig", TRUE)
    ELSE IF starts_with(message, <<"!","a","b","o","r","t"," ">>)
    THEN Then(check_authorization,
              Try(extract_url(message), LAMBDA task : Vec(<<abort(task, o.proc)>>)))
    ELSE Vec(<<>>)

(***************************************************************************)
(* Message handler.  A message is [privmsg, target, text, prefix, nick]:   *)
(* whether it is a PRIVMSG, its target, its text, its prefix (an option)   *)
(* and the nickname the transport derives from the prefix (an option).     *)
(***************************************************************************)
\* \A.+!webchat@.+\z
WEBCHAT_RE(prefix) ==
    /\ DotStar(prefix, 1, Len(prefix))
    /\ \E i \in 2..(Len(prefix) - 9) : HasAt(prefix, <<"!","w","e","b","c","h","a","t","@">>, i)

\* a check_authorization that sends no warning
check_authorization_silent(message, channel, user, rtd) ==
    IF message.prefix # None /\ WEBCHAT_RE(message.prefix[1])
    THEN Ret(Err("NotAuthorized", <<>>), <<>>)
    ELSE Ret(Ok(<<>>), <<>>)

\* the closure check_authorization of handle_message
check_authorization(message, channel, user, rtd) ==
    IF message.prefix # None /\ WEBCHAT_RE(message.prefix[1])
    THEN Ret(Err("NotAuthorized", <<>>),
             <<send_reply(channel, user, Ok(Fmt("NoWebchat", <<>>)), rtd)>>)
    ELSE Ret(Ok(<<>>), <<>>)

\* Message::response_target: the target when it is a channel name
response_target(message) ==
    IF message.target # <<>> /\ message.target[1] \in {"#", "&", "+", "!"}
    THEN Some(message.target)
    ELSE message.nick

\* a send_replies that sends the replies last to first
send_replies_reversed(channel, user, rtd, before, replies) ==
    IF IsPanic(replies.res) THEN [effects |-> before \o replies.calls, crashed |-> TRUE]
    ELSE IF ~replies.res.ok
    THEN [effects |-> before \o replies.calls
                      \o <<Privmsg(channel, user, TRUE, ErrorText(replies.res.err))>>,
          crashed |-> FALSE]
    ELSE [effects |-> before \o replies.calls
                      \o [i \in 1..Len(replies.res.val) |->
                            send_reply(channel, user,
                                       replies.res.val[Len(replies.res.val) + 1 - i], rtd)],
          crashed |-> FALSE]

\* the match on the replies of dispatch_message: what was done before it
\* returned, then the replies
send_replies(channel, user, rtd, before, replies) ==
    IF IsPanic(replies.res) THEN [effects |-> before \o replies.calls, crashed |-> TRUE]
    ELSE IF ~replies.res.ok
    THEN [effects |-> before \o replies.calls
                      \o <<Privmsg(channel, user, TRUE, ErrorText(replies.res.err))>>,
          crashed |-> FALSE]
    ELSE [effects |-> before \o replies.calls
                      \o [i \in 1..Len(replies.res.val) |->
                            send_reply(channel, user, replies.res.val[i], rtd)],
          crashed |-> FALSE]

\* the special handling of one user
kick_ryz(channel, user, msg) ==
    IF user = <<"R","y","z">> /\ starts_with(msg, <<"!","a","r","c","h","i","v","e"," ">>)
    THEN <<[ev |-> "kick", to |-> channel, who |-> user]>>
    ELSE <<>>

\* the effects of handling one message, in order, and whether the process
\* was ended by a panic
handle_message(message, rtd, o) ==
    IF ~message.privmsg THEN [effects |-> <<>>, crashed |-> FALSE]
    ELSE IF message.nick = None THEN [effects |-> <<>>, crashed |-> TRUE]
    ELSE IF response_target(message) # Some(rtd.command_channel)
    THEN [effects |-> <<>>, crashed |-> FALSE]
    ELSE send_replies(rtd.command_channel, message.nick[1], rtd,
                      kick_ryz(rtd.command_channel, message.nick[1], message.text),
                      dispatch_message(message.text, message.nick[1], rtd,
                                       check_authorization(message, rtd.command_channel,
                                                           message.nick[1], rtd), o))

(***************************************************************************)
(* The external session tool: a session of the registry is [created, name].*)
(***************************************************************************)
\* the stdout of  tmux list-sessions -F "#{session_created} #S"
RECURSIVE list_sessions_output(_)
list_sessions_output(reg) ==
    IF reg = <<>> THEN <<>>
    ELSE to_string(Head(reg).created) \o <<" ">> \o Head(reg).name \o <<"\n">>
         \o list_sessions_output(Tail(reg))

\* the programs archive starts
Launchers ==
    {"grab-youtube-video", "grab-youtube-video-big-video",
     "grab-youtube-channel", "grab-youtube-channel-big-videos"}

IsCall(e) == e.ev = "call"

IsLaunch(e) == IsCall(e) /\ e.prog \in Launchers

IsReply(e) == e.ev = "privmsg"

IsFetch(e) == IsCall(e) /\ e.prog = "get-youtube-page"

IsListSessions(e) == IsCall(e) /\ e.prog = "tmux" /\ e.fixed[1] = "list-sessions"

IsAbortSignal(e) == IsCall(e) /\ e.prog = "tmux" /\ e.fixed[1] = "send-keys"

IsListFolder(e) == IsCall(e) /\ e.prog = "ts"

IsScripts(e) ==
    IsCall(e) /\ e.prog \in {"stop-all-youtube-scripts", "cont-all-youtube-scripts"}

\* the session a launcher started for a folder creates
LaunchedSession(folder, now) == [created |-> now, name |-> SESSION_PREFIX \o folder]

(***************************************************************************)
(* Bounds and inputs of the model.                                         *)
(***************************************************************************)
\* sessions in the registry
MaxSessions == 2

\* configured task limits are 1..MaxLimit
MaxLimit == 2

\* the time at which sessions of the model are created
Now == 1000

CHANNEL == <<"#","y","t">>

JBLOW == <<"j","b","l","o","w","8","8","8">>

BAD_NAME == <<".",".","/","x">>

CHANNEL_ID ==
    <<"U","C","h","B","B","W","t","5","H","8","u","Z","W","1","L","S","O","h","_","a","P","t","2","Q">>

OLD_PLAYLIST_ID ==
    <<"P","L","5","A","C","6","5","6","7","9","4","E","E","1","9","1","C","1">>

VIDEO_ID == <<"Y","d","S","d","v","I","R","k","k","D","Y">>

\* a text of n characters x
Long(n) == [i \in 1..n |-> "x"]

Client(nick, prefix) == [nick |-> nick, prefix |-> prefix]

ALICE == Client(<<"a","l","i","c","e">>, <<"a","l","i","c","e","!","a","@","h">>)

BOB == Client(<<"b","o","b">>, <<"b","o","b","!","b","@","h">>)

WEB == Client(<<"w","e","b">>, <<"w","e","b","!","w","e","b","c","h","a","t","@","g","w">>)

RYZ == Client(<<"R","y","z">>, <<"R","y","z","!","r","@","h">>)

Message(sender, text) ==
    [privmsg |-> TRUE, target |-> CHANNEL, text |-> text,
     prefix |-> Some(sender.prefix), nick |-> Some(sender.nick)]

URL_USER == WWW_YOUTUBE \o <<"u","s","e","r","/">> \o JBLOW

URL_CHANNEL == WWW_YOUTUBE \o <<"c","h","a","n","n","e","l","/">> \o CHANNEL_ID \o <<"/","v","i","d","e","o","s">>

URL_PLAYLIST ==
    WWW_YOUTUBE \o <<"p","l","a","y","l","i","s","t","?","l","i","s","t","=">> \o OLD_PLAYLIST_ID

URL_VIDEO == <<"h","t","t","p",":","/","/","y","o","u","t","u",".","b","e","/">> \o VIDEO_ID

URL_OTHER == <<"h","t","t","p","s",":","/","/","e","x","a","m","p","l","e",".","c","o","m","/","x">>

P_S == <<"!","s"," ">>

P_A == <<"!","a"," ">>

P_SA == <<"!","s","a"," ">>

P_AVERYBIG == <<"!","a","v","e","r","y","b","i","g"," ">>

P_SAVERYBIG == <<"!","s","a","v","e","r","y","b","i","g"," ">>

P_ABORT == <<"!","a","b","o","r","t"," ">>

\* commands that require authorization, as a webchat sender issues them
AuthTexts ==
    {<<"!","s","t","o","p","s","c","r","i","p","t","s">>,
     <<"!","c","o","n","t","s","c","r","i","p","t","s">>,
     P_A \o URL_USER, P_SA \o URL_USER, P_AVERYBIG \o URL_USER, P_SAVERYBIG \o URL_USER,
     P_ABORT \o JBLOW, P_ABORT \o BAD_NAME}

\* commands open to every sender
OpenTexts ==
    {<<"!","h","e","l","p">>, <<"!","s","t","a","t","u","s">>, P_S \o JBLOW,
     <<"!","h","e","l","p"," ">>, <<"!","s","t","a","t","u","s"," ","x">>}

\* the commands of an authorized sender
MoreTexts ==
    {<<"!","s","t","o","p","s","c","r","i","p","t","s">>,
     <<"!","c","o","n","t","s","c","r","i","p","t","s">>,
     P_S \o BAD_NAME, P_S \o URL_USER, P_S \o URL_VIDEO, P_S \o Long(201), P_S,
     P_A \o URL_USER, P_A \o URL_CHANNEL, P_A \o URL_PLAYLIST, P_A \o URL_VIDEO,
     P_A \o URL_OTHER, P_A \o Long(201),
     P_SA \o URL_PLAYLIST, P_AVERYBIG \o URL_PLAYLIST, P_SAVERYBIG \o URL_USER,
     P_ABORT \o JBLOW, P_ABORT \o BAD_NAME, P_ABORT \o Long(201),
     P_ABORT \o JBLOW \o <<" ","n","o","w">>,
     <<"!","a">>}

Messages ==
    {Message(WEB, t) : t \in AuthTexts \cup OpenTexts}
    \cup {Message(ALICE, t) : t \in OpenTexts \cup MoreTexts}
    \cup {Message(BOB, t) : t \in {<<"!","h","e","l","p">>, P_A \o URL_PLAYLIST}}
    \cup {Message(RYZ, <<"!","a","r","c","h","i","v","e"," ","x">>),
          [Message(ALICE, <<"!","h","e","l","p">>) EXCEPT !.privmsg = FALSE],
          [Message(ALICE, <<"!","h","e","l","p">>) EXCEPT !.target = <<"#","o","t","h","e","r">>],
          [Message(ALICE, <<"!","h","e","l","p">>) EXCEPT !.prefix = None, !.nick = None]}

Rtd(task_limit, user_limits) ==
    [task_limit |-> task_limit, user_limits |-> user_limits,
     user_highlights |-> (BOB.nick :> "Fraktur"), command_channel |-> CHANNEL]

\* the configurations: every limit without user limits, and a user limit
\* below the largest limit
Rtds == {Rtd(t, <<>>) : t \in 1..MaxLimit} \cup {Rtd(MaxLimit, (ALICE.nick :> 1))}

\* the exit status of these responses is 0; no caller reads it
Response(started, utf8, stdout) ==
    [started |-> started, utf8 |-> utf8, stdout |-> stdout, status |-> 0]

\* the program started and exited with status 1
Failed(stdout) == [Response(TRUE, TRUE, stdout) EXCEPT !.status = 1]

NotStarted == Response(FALSE, TRUE, <<>>)

BadUtf8 == Response(TRUE, FALSE, <<>>)

Good(stdout) == Response(TRUE, TRUE, stdout)

UserPage(name) ==
    <<"<","p",">">> \o
    <<"<","l","i","n","k"," ","i","t","e","m","p","r","o","p","=","\"","u","r","l","\""," ",
      "h","r","e","f","=","\"","h","t","t","p",":","/","/","w","w","w",".","y","o","u","t","u","b","e",
      ".","c","o","m","/","u","s","e","r","/">> \o name \o <<"\"",">","\n">>

MetaPage(id) ==
    <<"<","p",">">> \o
    <<"<","m","e","t","a"," ","i","t","e","m","p","r","o","p","=","\"","c","h","a","n","n","e","l","I","d","\""," ",
      "c","o","n","t","e","n","t","=","\"">> \o id \o <<"\"",">","\n">>

PlayerPage(id) ==
    <<"v","a","r"," ","y","t","p","l","a","y","e","r"," ","="," ","{",
      "\\","\"","c","h","a","n","n","e","l","I","d","\\","\"",":","\\","\"">> \o id \o <<"\\","\"","}">>

\* what the page fetch can answer for a channel or user page
ChannelPages ==
    {NotStarted, BadUtf8, Good(<<>>), Good(UserPage(JBLOW)), Good(UserPage(BAD_NAME)),
     Good(MetaPage(CHANNEL_ID))}

\* what it can answer for a watch page, and for the channel page fetched after it
VideoPages == {NotStarted, Good(<<>>), Good(MetaPage(CHANNEL_ID)), Good(PlayerPage(CHANNEL_ID))}

SecondPages == {NotStarted, Good(<<>>), Good(UserPage(JBLOW)), Good(MetaPage(CHANNEL_ID))}

Listings ==
    {NotStarted,
     Good(<<"a",".","m","p","4","\n","b",".","t","x","t","\n","c",".","m","k","v","\n">>)}

\* the session tool answers with the registry, or with a listing that has a
\* line without a name or a line whose timestamp is no number, or not at all
SessionListings(reg) ==
    {NotStarted, Good(list_sessions_output(reg)),
     Good(list_sessions_output(reg) \o <<"1","0","0","0","\n">>),
     Good(<<"n","o","w"," ","x","\n">> \o list_sessions_output(reg))}

ProcResponses == {NotStarted, Good(<<"a","\n","b","\n">>)}

LaunchResponses == {NotStarted, BadUtf8, Good(<<>>)}

\* sessions external tooling starts by itself
ExternalSessions ==
    {[created |-> Now, name |-> SESSION_PREFIX \o JBLOW],
     [created |-> Now, name |-> <<"i","r","s","s","i">>]}

NoResponses ==
    [pages |-> <<NotStarted, NotStarted>>, ls |-> NotStarted, sess |-> NotStarted,
     proc |-> NotStarted, launch |-> NotStarted]

CallsOf(effects) == SelectSeq(effects, IsCall)

RECURSIVE Responses(_, _, _, _, _)
\* the responses that extend o, which answers the first k of the calls made
\* under it: every answer to the next call, and so on
Extended(msg, conf, reg, o, k, calls) ==
    LET next == calls[k + 1]
        nth  == Cardinality({i \in 1..k : IsFetch(calls[i])}) + 1
        ext  == IF IsFetch(next)
                THEN {[o EXCEPT !.pages[nth] = p] :
                        p \in IF nth = 2 THEN SecondPages
                              ELSE IF HasAt(next.args[1], <<"w","a","t","c","h">>, Len(WWW_YOUTUBE) + 1)
                              THEN VideoPages ELSE ChannelPages}
                ELSE IF IsListFolder(next) THEN {[o EXCEPT !.ls = p] : p \in Listings}
                ELSE IF IsListSessions(next)
                THEN {[o EXCEPT !.sess = p] : p \in SessionListings(reg)}
                ELSE {[o EXCEPT !.proc = p] : p \in ProcResponses}
    IN  IF Len(calls) <= k \/ IsLaunch(next) THEN {o}
        ELSE UNION {Responses(msg, conf, reg, o2, k + 1) : o2 \in ext}

\* the responses the external processes can give while msg is handled
Responses(msg, conf, reg, o, k) ==
    Extended(msg, conf, reg, o, k, CallsOf(handle_message(msg, conf, o).effects))

(***************************************************************************)
(* State.                                                                  *)
(***************************************************************************)
VARIABLES
    registry,   \* the sessions of the external session tool, in listing order
    rtd,        \* the configuration read at start
    pc,         \* "idle", "launching", "done" or "crashed"
    cur,        \* the message being handled and the responses it got
    log,        \* the effects of handling it so far: calls and replies, in order
    applied     \* a function of the source applied by itself: [fn, arg, ret, done]

vars == <<registry, rtd, pc, cur, log, applied>>

\* no function is applied by itself
NotApplied == [fn |-> "none", arg |-> <<>>, ret |-> <<>>, done |-> FALSE]

NoMessage == [msg |-> [privmsg |-> FALSE, target |-> <<>>, text |-> <<>>, prefix |-> None, nick |-> None],
              o |-> NoResponses]

Init ==
    /\ registry = <<>>
    /\ rtd \in Rtds
    /\ pc = "idle"
    /\ cur = NoMessage
    /\ log = <<>>
    /\ applied = NotApplied

\* index of the launcher call in effects, 0 without one
LaunchIndex(effects) ==
    LET at == {i \in 1..Len(effects) : IsLaunch(effects[i])}
    IN  IF at = {} THEN 0 ELSE Min(at)

\* handle_message up to the point where archive starts the launcher, or to
\* its end when it starts none; r is what the handler does under o
Handled(msg, o, r, k) ==
    /\ k # 0 => Len(registry) < MaxSessions
    /\ cur' = [msg |-> msg, o |-> o]
    /\ log' = IF k # 0 THEN SubSeq(r.effects, 1, k - 1) ELSE r.effects
    /\ pc' = IF k # 0 THEN "launching" ELSE IF r.crashed THEN "crashed" ELSE "done"

HandleUnder(msg, o, r) == Handled(msg, o, r, LaunchIndex(r.effects))

Handle ==
    /\ pc = "idle"
    /\ \E msg \in Messages :
         \E o \in Responses(msg, rtd, registry, NoResponses, 0) :
            HandleUnder(msg, o, handle_message(msg, rtd, o))
    /\ UNCHANGED <<registry, rtd, applied>>

\* the launcher runs and handle_message goes on to its end; a launcher that
\* started may have created its session
Launched(o, r, created) ==
    /\ registry' = IF created
                   THEN Append(registry,
                               LaunchedSession(r.effects[LaunchIndex(r.effects)].args[1], Now))
                   ELSE registry
    /\ cur' = [cur EXCEPT !.o = o]
    /\ log' = r.effects
    /\ pc' = IF r.crashed THEN "crashed" ELSE "done"

LaunchUnder(o, created) == Launched(o, handle_message(cur.msg, rtd, o), created)

\* a handler that counts its launches against the configured limit
Launch_counting ==
    /\ pc = "launching"
    /\ \E lr \in LaunchResponses, created \in BOOLEAN :
         /\ created => lr.started
         /\ LaunchUnder([cur.o EXCEPT !.launch = lr], created)
    /\ rtd' = [rtd EXCEPT !.task_limit = IF @ > 1 THEN @ - 1 ELSE @]
    /\ UNCHANGED applied

\* a handler that looks at the registry again before it starts the launcher
Launch_rechecking ==
    /\ pc = "launching"
    /\ LET folder == handle_message(cur.msg, rtd, cur.o).effects[Len(log) + 1].args[1]
       IN  IF \E i \in 1..Len(registry) : registry[i].name = SESSION_PREFIX \o folder
           THEN pc' = "done" /\ UNCHANGED <<registry, cur, log>>
           ELSE \E lr \in LaunchResponses, created \in BOOLEAN :
                   /\ created => lr.started
                   /\ LaunchUnder([cur.o EXCEPT !.launch = lr], created)
    /\ UNCHANGED <<rtd, applied>>

Launch ==
    /\ pc = "launching"
    /\ \E lr \in LaunchResponses, created \in BOOLEAN :
         /\ created => lr.started
         /\ LaunchUnder([cur.o EXCEPT !.launch = lr], created)
    /\ UNCHANGED <<rtd, applied>>

\* handle_message returns to the transport loop, which takes the next message
Return ==
    /\ pc = "done"
    /\ pc' = "idle"
    /\ cur' = NoMessage
    /\ log' = <<>>
    /\ UNCHANGED <<registry, rtd, applied>>

\* external tooling starts a session
ExternalStart ==
    /\ pc \in {"idle", "launching"}
    /\ Len(registry) + (IF pc = "launching" THEN 1 ELSE 0) < MaxSessions
    /\ \E s \in ExternalSessions : registry' = Append(registry, s)
    /\ UNCHANGED <<rtd, pc, cur, log, applied>>

\* a session ends
ExternalEnd ==
    /\ pc \in {"idle", "launching"}
    /\ \E i \in 1..Len(registry) :
         registry' = SubSeq(registry, 1, i - 1) \o SubSeq(registry, i + 1, Len(registry))
    /\ UNCHANGED <<rtd, pc, cur, log, applied>>

Next == Handle \/ Launch \/ Return \/ ExternalStart \/ ExternalEnd

Spec == Init /\ [][Next]_vars

\* sessions are started by the launchers of this program only
NextCore == Handle \/ Launch \/ Return \/ ExternalEnd

SpecCore == Init /\ [][NextCore]_vars

(***************************************************************************)
(* Observations of the command in hand.                                    *)
(***************************************************************************)
Sender == cur.msg.nick[1]

Text == cur.msg.text

\* a command of the command channel is in hand or was just handled
InHand ==
    /\ pc # "idle"
    /\ cur.msg.privmsg
    /\ cur.msg.nick # None
    /\ response_target(cur.msg) = Some(rtd.command_channel)

Webchat == cur.msg.prefix # None /\ WEBCHAT_RE(cur.msg.prefix[1])

ArchivePrefixes == {P_A, P_SA, P_AVERYBIG, P_SAVERYBIG}

RequiresAuthorization(text) ==
    \/ text \in {<<"!","s","t","o","p","s","c","r","i","p","t","s">>,
                 <<"!","c","o","n","t","s","c","r","i","p","t","s">>}
    \/ \E p \in ArchivePrefixes \cup {P_ABORT} : starts_with(text, p)

Replies == SelectSeq(log, IsReply)

LastReply == Replies[Len(Replies)]

Reply(body) == Privmsg(rtd.command_channel, highlight_for_user(Sender, rtd), FALSE, body)

ErrorReply(kind, arg) ==
    Privmsg(rtd.command_channel, highlight_for_user(Sender, rtd), TRUE, Fmt(kind, <<arg>>))

LauncherInvoked == pc = "launching" \/ \E i \in 1..Len(log) : IsLaunch(log[i])

\* archive was called: it read the session list
ArchiveRan ==
    /\ InHand
    /\ \E p \in ArchivePrefixes : starts_with(Text, p)
    /\ \E i \in 1..Len(log) : IsListSessions(log[i])

\* the arguments archive was called with
Url == extract_url(Text).val

Requested == resolve(Url, cur.o).res.val

\* the session list archive read
SessionsRead == get_downloader_sessions(cur.o.sess).res

FolderRuns ==
    LET sessions == SessionsRead.val
        folder   == Requested.folder
    IN  \E i \in 1..Len(sessions) : sessions[i].identifier = folder

\* the limit of the sender: the entry of user_limits, else task_limit
LimitOf == IF Sender \in DOMAIN rtd.user_limits THEN rtd.user_limits[Sender] ELSE rtd.task_limit

RefusedWith(body) ==
    /\ pc = "done"
    /\ ~LauncherInvoked
    /\ Replies # <<>>
    /\ LastReply = Reply(body)

(***************************************************************************)
(* Admission.                                                              *)
(***************************************************************************)
\* C1: when the session list read by archive has a session whose identifier
\* is the folder of the descriptor, archive answers with the duplicate-folder
\* reply and no launcher is invoked, whatever the user, the kind, the limit
\* and the number of sessions.
C1_DuplicateFolderRefused ==
    (ArchiveRan /\ SessionsRead.ok /\ FolderRuns)
        => RefusedWith(Fmt("CantArchiveSameFolder", <<Url, Requested.folder>>))

\* a video whose folder runs is refused below the limit of its sender
C1_Witness ==
    /\ ArchiveRan /\ SessionsRead.ok /\ FolderRuns
    /\ pc = "done"
    /\ Requested.kind = "Video"
    /\ Len(SessionsRead.val) < LimitOf

\* the limit reply, carrying the limit, and no launcher
RefusedByLimit ==
    RefusedWith(Fmt("CantArchiveTooManyTasks", <<Url, to_string(LimitOf)>>))

\* C2 as stated: for every kind, a request whose folder has no session is
\* refused with the limit reply when the sessions read are at least the limit
\* of the sender, and reaches the launcher when they are fewer.
C2_LimitForEveryKind ==
    (ArchiveRan /\ SessionsRead.ok /\ ~FolderRuns)
        => IF Len(SessionsRead.val) >= LimitOf THEN RefusedByLimit ELSE LauncherInvoked

\* C2: a User, Channel or Playlist request whose folder has no session is
\* refused with the limit reply when the sessions read are at least the limit
\* of the sender and reaches the launcher when they are fewer; a Video
\* request whose folder has no session reaches the launcher whatever the
\* number of sessions.
C2_LimitExceptVideo ==
    (ArchiveRan /\ SessionsRead.ok /\ ~FolderRuns)
        => IF Requested.kind # "Video" /\ Len(SessionsRead.val) >= LimitOf
           THEN RefusedByLimit
           ELSE LauncherInvoked

\* a user at the limit of user_limits, below task_limit, is refused
C2_Witness ==
    /\ ArchiveRan /\ SessionsRead.ok /\ ~FolderRuns
    /\ Requested.kind = "User"
    /\ Sender \in DOMAIN rtd.user_limits
    /\ Len(SessionsRead.val) >= LimitOf
    /\ Len(SessionsRead.val) < rtd.task_limit
    /\ pc = "done"

(***************************************************************************)
(* Authorization.                                                          *)
(***************************************************************************)
\* a webchat sender issued a command that requires authorization
Rejected == InHand /\ Webchat /\ RequiresAuthorization(Text)

\* C3 as stated: a rejected command gets one reply, the fixed warning.
C3_OneReply == Rejected => Replies = <<Reply(Fmt("NoWebchat", <<>>))>>

\* C3: a rejected command gets two replies: the fixed warning, then the
\* error reply of NotAuthorized, addressed to the plain nickname.
C3_WarningThenError ==
    Rejected =>
        Replies = <<Reply(Fmt("NoWebchat", <<>>)),
                    Privmsg(rtd.command_channel, Sender, TRUE, Fmt("NotAuthorized", <<<<>>>>))>>

C3_Witness == Rejected /\ pc = "done" /\ starts_with(Text, P_SA)

\* C4: a rejected command makes no external call: no page fetch, no session
\* or folder listing, no launcher, no abort signal, no script pause or resume.
C4_RejectedCallsNothing ==
    Rejected => pc = "done" /\ \A i \in 1..Len(log) : ~IsCall(log[i])

C4_Witness == Rejected /\ pc = "done" /\ starts_with(Text, P_ABORT) /\ Len(log) = 2

(***************************************************************************)
(* Failures.                                                               *)
(***************************************************************************)
\* what dispatch_message returns for the command in hand
Outcome ==
    dispatch_message(Text, Sender, rtd,
                     check_authorization(cur.msg, rtd.command_channel, Sender, rtd),
                     cur.o).res

\* the failures of the command: the one that ended dispatch_message, or
\* those of its actions
Failures ==
    IF ~Outcome.ok THEN 1
    ELSE Cardinality({i \in 1..Len(Outcome.val) : ~Outcome.val[i].ok})

IsErrorReply(e) == IsReply(e) /\ e.error

\* C5 as stated: a handled command ends with one error reply for each of its
\* failures, and the process goes on.
C5_OneErrorReplyPerFailure ==
    (InHand /\ pc \in {"done", "crashed"})
        => pc = "done" /\ Len(SelectSeq(log, IsErrorReply)) = Failures

\* the session tool was asked for its sessions
SessionsListed == InHand /\ \E i \in 1..Len(log) : IsListSessions(log[i])

\* a line of a listing without a name, or whose timestamp is no number
Malformed(line) == Len(splitn2(line)) < 2 \/ parse_u64(splitn2(line)[1]) = None

MalformedListing(resp) ==
    /\ resp.started
    /\ resp.utf8
    /\ \E i \in 1..Len(lines(resp.stdout)) : Malformed(lines(resp.stdout)[i])

\* C6 as stated: a listing with a malformed line makes the command end with
\* an error reply, and the process goes on.
C6_MalformedListingIsError ==
    (SessionsListed /\ MalformedListing(cur.o.sess))
        => pc = "done" /\ Replies # <<>> /\ LastReply.error

(***************************************************************************)
(* One session per folder.                                                 *)
(***************************************************************************)
\* C7: when only the launches of this program start sessions, no two
\* sessions of the registry have the same identifier.
C7_OneSessionPerFolder ==
    \A i, j \in 1..Len(registry) : registry[i].name = registry[j].name => i = j

\* with two sessions running, a request for the folder of one was refused
C7_Witness ==
    /\ Len(registry) = MaxSessions
    /\ ArchiveRan /\ SessionsRead.ok /\ FolderRuns
    /\ pc = "done"
    /\ \A i \in 1..Len(registry) : starts_with(registry[i].name, SESSION_PREFIX)

(***************************************************************************)
(* Order of the replies.                                                   *)
(***************************************************************************)
WithStash == starts_with(Text, P_SA) \/ starts_with(Text, P_SAVERYBIG)

\* C8: no call is made after a reply of the command was sent, no reply is
\* sent while the launcher runs, and the replies of "!sa" and "!saverybig"
\* are the reply of the stash check, then the reply of archive.
C8_RepliesInOrder ==
    /\ \A i, j \in 1..Len(log) : (IsReply(log[i]) /\ IsCall(log[j])) => j < i
    /\ pc = "launching" => Replies = <<>>
    /\ (ArchiveRan /\ WithStash /\ pc = "done") =>
          /\ Len(Replies) = 2
          /\ Replies[1] = send_reply(rtd.command_channel, Sender,
                                      check_stash(Requested, cur.o.ls).res, rtd)
          /\ Replies[2].body.fmt \in {"Grabbing", "CantArchiveSameFolder",
                                      "CantArchiveTooManyTasks", "Io", "Utf8"}

\* the stash was listed, the launcher ran, then both replies were sent
C8_Witness ==
    /\ ArchiveRan /\ WithStash /\ pc = "done"
    /\ \E i \in 1..Len(log) : IsLaunch(log[i])
    /\ Len(Replies) = 2
    /\ Replies[1].body.fmt = "stash"
    /\ Replies[2].body.fmt = "Grabbing"

(***************************************************************************)
(* Names given to external processes.                                      *)
(***************************************************************************)
\* C9 as stated: the folder a launcher is started with matches
\* [-_A-Za-z0-9]+.
C9_LaunchedFolderIsIdentifier ==
    \A i \in 1..Len(log) : IsLaunch(log[i]) => assert_valid_task_name(log[i].args[1]).ok

\* the argument of a command: its second token, its first without a space
Argument ==
    LET sp   == {j \in 1..Len(Text) : Text[j] = " "}
        rest == From(Text, Min(sp) + 1)
        sp2  == {j \in 1..Len(rest) : rest[j] = " "}
    IN  IF sp = {} THEN Text ELSE IF sp2 = {} THEN rest ELSE SubSeq(rest, 1, Min(sp2) - 1)

IsIdentifier(s) == s # <<>> /\ \A j \in 1..Len(s) : s[j] \in IdChars

\* "!abort <task>", or "!s <arg>" with an argument that is no URL, and the
\* argument is no identifier
BadRawArgument ==
    /\ InHand
    /\ \/ starts_with(Text, P_ABORT)
       \/ /\ starts_with(Text, P_S)
          /\ ~starts_with(Argument, <<"h","t","t","p","s",":","/","/">>)
          /\ ~starts_with(Argument, <<"h","t","t","p",":","/","/">>)
    /\ ~IsIdentifier(Argument)

NothingSignalled == \A i \in 1..Len(log) : ~IsListFolder(log[i]) /\ ~IsAbortSignal(log[i])

\* C10 as stated: such an argument yields InvalidTaskName, and neither the
\* folder lister nor the abort signal is invoked.
C10_InvalidTaskName ==
    BadRawArgument =>
        /\ NothingSignalled
        /\ pc = "done" /\ Replies # <<>>
        /\ LastReply = ErrorReply("InvalidTaskName", Argument)

\* C10: for such an argument neither the folder lister nor the abort signal
\* is invoked; the reply is NotAuthorized for "!abort" of a webchat sender,
\* else UrlTooLong for an argument of more than 200 bytes, else
\* InvalidTaskName.
C10_NothingSignalled ==
    BadRawArgument =>
        /\ NothingSignalled
        /\ pc = "done" /\ Replies # <<>>
        /\ LastReply =
             IF starts_with(Text, P_ABORT) /\ Webchat
             THEN Privmsg(rtd.command_channel, Sender, TRUE, Fmt("NotAuthorized", <<<<>>>>))
             ELSE IF Len(Argument) > 200
             THEN Privmsg(rtd.command_channel, Sender, TRUE, Fmt("UrlTooLong", <<<<>>>>))
             ELSE ErrorReply("InvalidTaskName", Argument)

C10_Witness ==
    /\ BadRawArgument /\ pc = "done"
    /\ starts_with(Text, P_ABORT) /\ ~Webchat /\ Len(Argument) <= 200

(***************************************************************************)
(* Functions applied by themselves.  The input of a function is drawn at   *)
(* the start and its action applies the function once.                     *)
(***************************************************************************)
\* ids have up to Slack characters too few or too many
Slack == 1

\* texts are spliced from up to MaxParts fragments
MaxParts == 3

\* id cut or padded to n characters
Resize(id, n) == [i \in 1..n |-> IF i <= Len(id) THEN id[i] ELSE "A"]

NEW_PLAYLIST_ID == Resize(<<"P","L","-","_","a","Z","9">>, 34)

YOUTU_BE == <<"h","t","t","p","s",":","/","/","y","o","u","t","u",".","b","e","/">>

\* the hosts the normalizer maps to the canonical prefix
YoutubePrefixes ==
    {WWW_YOUTUBE, <<"h","t","t","p",":","/","/","w","w","w",".","y","o","u","t","u","b","e",".","c","o","m","/">>, <<"h","t","t","p","s",":","/","/","y","o","u","t","u","b","e",".","c","o","m","/">>, <<"h","t","t","p",":","/","/","m",".","y","o","u","t","u","b","e",".","c","o","m","/">>}

OtherPrefixes == {<<"h","t","t","p","s",":","/","/","e","x","a","m","p","l","e",".","c","o","m","/">>, <<"w","w","w",".","y","o","u","t","u","b","e",".","c","o","m","/">>}

\* the path before the id of a url of each kind
PathOf(kind) ==
    CASE kind = "Channel"  -> <<"c","h","a","n","n","e","l","/">>
      [] kind = "User"     -> <<"u","s","e","r","/">>
      [] kind = "Playlist" -> <<"p","l","a","y","l","i","s","t","?","l","i","s","t","=">>
      [] kind = "Video"    -> <<"w","a","t","c","h","?","v","=">>

\* ids of each kind: of the right length, too short, too long, and with a
\* character outside the character set
IdsOf(kind) ==
    CASE kind = "Channel" ->
            {Resize(CHANNEL_ID, 24 + d) : d \in (0 - Slack)..Slack}
            \cup {[CHANNEL_ID EXCEPT ![5] = "!"]}
      [] kind = "User" ->
            {Resize(JBLOW, n) : n \in {0, 1, 8} \cup (20 - Slack)..(20 + Slack)}
            \cup {<<"j","b","_","l","o","w">>}
      [] kind = "Playlist" ->
            {Resize(OLD_PLAYLIST_ID, 18 + d) : d \in (0 - Slack)..Slack}
            \cup {Resize(NEW_PLAYLIST_ID, 34 + d) : d \in (0 - Slack)..Slack}
            \cup {[OLD_PLAYLIST_ID EXCEPT ![5] = "G"]}
      [] kind = "Video" ->
            {Resize(VIDEO_ID, 11 + d) : d \in (0 - Slack)..Slack}
            \cup {[VIDEO_ID EXCEPT ![5] = "!"]}

\* what follows the id of a channel or user url
PathNoise ==
    {<<>>, <<"/","v","i","d","e","o","s">>, <<"?">>, <<"?","s","t","u","f","f">>, <<"#">>, <<"#","s","t","u","f","f">>,
     <<"/","v","i","d","e","o","s","?">>, <<"/","v","i","d","e","o","s","?","s","t","u","f","f">>, <<"/","v","i","d","e","o","s","#">>, <<"/","v","i","d","e","o","s","#","s","t","u","f","f">>}

\* what follows the id of a playlist or watch url
QueryNoise == {<<>>, <<"&">>, <<"&","s","t","u","f","f">>, <<"#">>, <<"#","s","t","u","f","f">>}

\* the parameters the normalizer removes
PolymerNoise == {<<"?","d","i","s","a","b","l","e","_","p","o","l","y","m","e","r","=","1">>, <<"&","d","i","s","a","b","l","e","_","p","o","l","y","m","e","r","=","1">>}

Kinds == {"Channel", "User", "Playlist", "Video"}

\* a url as the parts it is written from
UrlParts ==
    UNION {{[prefix |-> p, kind |-> k, id |-> id, suffix |-> sfx] :
                p \in YoutubePrefixes \cup OtherPrefixes, id \in IdsOf(k),
                sfx \in PathNoise \cup QueryNoise \cup PolymerNoise} : k \in Kinds}
    \cup {[prefix |-> YOUTU_BE, kind |-> "Video", id |-> id, suffix |-> sfx] :
                id \in IdsOf("Video"), sfx \in QueryNoise \cup PolymerNoise}

UrlOf(parts) ==
    parts.prefix \o (IF parts.prefix = YOUTU_BE THEN <<>> ELSE PathOf(parts.kind))
    \o parts.id \o parts.suffix

Fragments ==
    {<<"h","t","t","p",":","/","/">>, <<"h","t","t","p","s",":","/","/">>, <<"m",".">>, <<"y","o","u","t","u","b","e",".","c","o","m","/">>, <<"y","o","u","t","u",".","b","e","/">>,
     <<"?","d","i","s">>, <<"a","b","l","e","_","p","o","l","y","m","e","r","=","1">>, <<"&","d","i","s","a","b","l","e","_","p","o","l","y","m","e","r","=","1">>, <<"x">>}

\* the texts of up to n fragments
RECURSIVE Splices(_)
Splices(n) ==
    IF n = 0 THEN {<<>>}
    ELSE LET shorter == Splices(n - 1)
         IN  shorter \cup {f \o t : f \in Fragments, t \in shorter}

\* a channel id other than CHANNEL_ID
OTHER_ID == FOLDER_EXCEPTIONS[TEDX_USER]

\* a page as the markup it holds: the username link, the channel id meta tag
\* and the channel id of the player, each present or not
PageParts ==
    {[user |-> u, meta |-> m, player |-> p] :
        u \in {None, Some(JBLOW), Some(TEDX_USER)},
        m \in {None, Some(CHANNEL_ID)},
        p \in {None, Some(OTHER_ID)}}

NoParts == [user |-> None, meta |-> None, player |-> None]

PageOf(parts) ==
    (IF parts.user = None THEN <<>> ELSE UserPage(parts.user[1]))
    \o (IF parts.meta = None THEN <<>> ELSE MetaPage(parts.meta[1]))
    \o (IF parts.player = None THEN <<>> ELSE PlayerPage(parts.player[1]))

\* a page fetch: the tool cannot be started ("io"), prints no text ("utf8"),
\* exits with status 1 and no page ("exit"), or prints the page ("ok")
Fetches ==
    {[how |-> h, parts |-> NoParts] : h \in {"io", "utf8", "exit"}}
    \cup {[how |-> "ok", parts |-> p] : p \in PageParts}

ResponseOf(fetch) ==
    CASE fetch.how = "io"   -> NotStarted
      [] fetch.how = "utf8" -> BadUtf8
      [] fetch.how = "exit" -> Failed(<<>>)
      [] fetch.how = "ok"   -> Good(PageOf(fetch.parts))

\* a descriptor with the fetches that answer its canonicalization
Canonicalizations ==
    {[d |-> Descriptor("Playlist", OLD_PLAYLIST_ID), pages |-> <<>>]}
    \cup {[d |-> d, pages |-> <<f>>] :
            d \in {Descriptor("Channel", CHANNEL_ID), Descriptor("User", JBLOW)},
            f \in Fetches}
    \cup {[d |-> Descriptor("Video", VIDEO_ID), pages |-> <<f, g>>] : f \in Fetches, g \in Fetches}

\* lines of a session listing
MaxLines == 2

\* entries of a folder listing
MaxFiles == 5

\* the sequences of up to n elements of S
RECURSIVE SeqsUpTo(_, _)
SeqsUpTo(S, n) ==
    IF n = 0 THEN {<<>>}
    ELSE LET shorter == SeqsUpTo(S, n - 1)
         IN  shorter \cup {<<x>> \o t : x \in S, t \in shorter}

\* sessions of the session tool: of this program's launchers, of others,
\* with the prefix twice, with the prefix inside, with a space in the name
ListedSessions ==
    {[created |-> t, name |-> n] :
        t \in {0, 1000, 2000},
        n \in {<<"Y","o","u","T","u","b","e","-","a","b","c">>, <<"u","n","r","e","l","a","t","e","d","-","s","e","s","s","i","o","n">>, <<"Y","o","u","T","u","b","e","-","Y","o","u","T","u","b","e","-","x">>, <<"Y","o","u","T","u","b","e","-">>,
               <<"m","y"," ","Y","o","u","T","u","b","e","-","x">>, <<"Y","o","u","T","u","b","e","-","a"," ","b">>}}

SessionLists == SeqsUpTo(ListedSessions, MaxLines)

FileNames == {<<"a",".","m","p","4">>, <<"b",".","t","x","t">>, <<"c",".","m","k","v">>, <<"v","i","d","e","o">>, <<"e",".","w","e","b","m",".","p","a","r","t">>}

FileLists == SeqsUpTo(FileNames, MaxFiles)

\* the stdout of the folder lister: one name a line
RECURSIVE file_listing_output(_)
file_listing_output(files) ==
    IF files = <<>> THEN <<>>
    ELSE Head(files) \o <<"\n">> \o file_listing_output(Tail(files))

\* a page whose username link holds a name that is no task name
BadUserFetch == Good(UserPage(BAD_NAME))

\* the canonical descriptors: what canonicalize returns
CanonicalDescriptors ==
    {canonicalize(c.d, [k \in 1..Len(c.pages) |-> ResponseOf(c.pages[k])]).res :
        c \in Canonicalizations}
    \cup {canonicalize(Descriptor("User", JBLOW), <<BadUserFetch>>).res}

\* answers of the folder lister
ListingAnswers ==
    {NotStarted, BadUtf8, Good(<<>>), Good(file_listing_output(<<<<"a",".","m","p","4">>, <<"b",".","t","x","t">>>>))}

\* a canonical descriptor with the answer to the listing of its folder
StashChecks ==
    {[d |-> r.val, files |-> a] : r \in {x \in CanonicalDescriptors : x.ok}, a \in ListingAnswers}

\* the archive commands, with a URL of each kind, a URL of no kind, no
\* argument and an argument that is too long
DispatchTexts ==
    {p \o u : p \in ArchivePrefixes,
              u \in {URL_USER, URL_CHANNEL, URL_PLAYLIST, URL_VIDEO, URL_OTHER}}
    \cup {P_SA, P_SA \o Long(201)}

\* a registry of as many downloads as the limit allows, in other folders
FullRegistry ==
    [i \in 1..MaxLimit |-> [created |-> Now, name |-> SESSION_PREFIX \o <<"t">> \o to_string(i)]]

\* answers of the session lister, one of them a line without a session name
SessionAnswers ==
    {NotStarted, Good(<<"1","0","0","0","\n">>)}
    \cup {Good(list_sessions_output(reg)) :
            reg \in {<<>>, <<LaunchedSession(JBLOW, Now)>>, <<LaunchedSession(CHANNEL_ID, Now)>>,
                     FullRegistry}}

\* answers of the processes a dispatched command runs
Environments ==
    {[pages |-> <<p, q>>, ls |-> l, sess |-> s, proc |-> NotStarted, launch |-> x] :
        p \in {NotStarted, Good(<<>>), Good(UserPage(JBLOW)), Good(MetaPage(CHANNEL_ID))},
        q \in {Good(<<>>), Good(UserPage(JBLOW)), Good(MetaPage(CHANNEL_ID))},
        l \in Listings, s \in SessionAnswers, x \in LaunchResponses}

Dispatches == {[text |-> t, o |-> o] : t \in DispatchTexts, o \in Environments}

\* tokens of a command text
MaxTokens == 3

Tokens ==
    {<<"!","s">>, <<"!","a">>, <<"!","s","a">>, <<"!","a","v","e","r","y","b","i","g">>, <<"!","s","a","v","e","r","y","b","i","g">>, <<"!","a","b","o","r","t">>, <<"!","h","e","l","p">>, <<"!","s","t","a","t","u","s">>,
     <<"!","s","t","o","p","s","c","r","i","p","t","s">>, <<"!","c","o","n","t","s","c","r","i","p","t","s">>, <<" ">>, <<"x">>, URL_PLAYLIST}

RECURSIVE TextsOf(_)
\* the texts of up to n tokens
TextsOf(n) ==
    IF n = 0 THEN {<<>>}
    ELSE LET shorter == TextsOf(n - 1)
         IN  shorter \cup {f \o t : f \in Tokens, t \in shorter}

\* a prefix command as its prefix, its argument (without a space) and what
\* follows the argument (nothing, or a space and more)
CommandParts ==
    {[p |-> p, arg |-> a, tail |-> t] :
        p \in {P_S, P_A, P_SA, P_AVERYBIG, P_SAVERYBIG, P_ABORT},
        a \in {<<>>, JBLOW, BAD_NAME, URL_PLAYLIST, Long(199), Long(200), Long(201)},
        t \in {<<>>, <<" ">>, <<" ","n","o","w">>, <<" ","a"," ","b">>}}

CommandOf(parts) == parts.p \o parts.arg \o parts.tail

\* query parameters of a URL
MaxParams == 2

\* URLs that put the path of one kind before the path or the id of another
MixedPaths ==
    {<<"w","a","t","c","h">>, <<"p","l","a","y","l","i","s","t">>, <<"c","h","a","n","n","e","l","/">> \o CHANNEL_ID, <<"u","s","e","r","/">> \o JBLOW,
     <<"w","a","t","c","h","/","u","s","e","r","/">> \o JBLOW, <<"p","l","a","y","l","i","s","t","/","c","h","a","n","n","e","l","/">> \o CHANNEL_ID, <<"u","s","e","r","/","w","a","t","c","h">>,
     <<"c","h","a","n","n","e","l","/","p","l","a","y","l","i","s","t">>}

Params ==
    {<<"v","=">> \o VIDEO_ID, <<"l","i","s","t","=">> \o OLD_PLAYLIST_ID, <<"l","i","s","t","=">> \o NEW_PLAYLIST_ID, <<"x","=","1">>}

MixedUrls == {[path |-> p, query |-> q] : p \in MixedPaths, q \in SeqsUpTo(Params, MaxParams)}

RECURSIVE JoinParams(_)
JoinParams(q) == IF q = <<>> THEN <<>> ELSE <<"&">> \o Head(q) \o JoinParams(Tail(q))

\* the URL of a path and its parameters: path?p1&p2
MixedUrl(parts) ==
    WWW_YOUTUBE \o parts.path
    \o (IF parts.query = <<>> THEN <<>> ELSE <<"?">> \o Tail(JoinParams(parts.query)))

\* an !abort with what meets it: whether tmux can be started and whether
\* the session of the task is running
Aborts ==
    {[task |-> t, started |-> s, running |-> r] :
        t \in {JBLOW, CHANNEL_ID, BAD_NAME}, s \in BOOLEAN, r \in BOOLEAN}

\* tmux send-keys exits with status 1 and a message when there is no such session
SendKeysAnswer(a) ==
    IF ~a.started THEN NotStarted
    ELSE IF a.running THEN Good(<<>>)
    ELSE Failed(<<"c","a","n","'","t"," ","f","i","n","d"," ","s","e","s","s","i","o","n",":"," ","Y","o","u","T","u","b","e","-">> \o a.task \o <<"\n">>)

\* characters of a nickname
MaxChars == 3

NickChars == {"u", "U", "z", "_", "0"}

\* nicknames: the short ones and those of the test of the source
Nicks == SeqsUpTo(NickChars, MaxChars) \cup {<<"u","s","e","r">>, <<"U","s","e","r">>, <<"_","U","s","e","r","0">>}

\* the alphabets highlight_for_user replaces with, and one that is longer
\* than the regular alphabet
ToSets ==
    {ALPHA_FRAKTUR, ALPHA_FRAKTUR_BOLD, ALPHA_SCRIPT, ALPHA_BOLD, ALPHA_ITALIC,
     ALPHA_BOLD_ITALIC, ALPHA_FRAKTUR \o <<"fraktur:+">>}

Replacements == {[input_str |-> s, to_set |-> t] : s \in Nicks, t \in ToSets}

Input(fn, arg) == [fn |-> fn, arg |-> arg, ret |-> <<>>, done |-> FALSE]

InitFn ==
    /\ registry = <<>>
    /\ rtd = Rtd(MaxLimit, <<>>)
    /\ pc = "idle"
    /\ cur = NoMessage
    /\ log = <<>>
    /\ \/ \E t \in Splices(MaxParts) : applied = Input("fix_youtube_url", t)
       \/ \E p \in UrlParts : applied = Input("from_url", p)
       \/ \E c \in Canonicalizations : applied = Input("canonicalize", c)
       \/ \E l \in SessionLists : applied = Input("get_downloader_sessions", l)
       \/ \E l \in FileLists : applied = Input("check_folder", l)
       \/ \E c \in StashChecks : applied = Input("check_stash", c)
       \/ \E c \in Dispatches : applied = Input("dispatch_message", c)
       \/ \E t \in TextsOf(MaxTokens) : applied = Input("match", t)
       \/ \E c \in CommandParts : applied = Input("extract_url", c)
       \/ \E u \in MixedUrls : applied = Input("shapes", u)
       \/ \E a \in Aborts : applied = Input("abort", a)
       \/ \E r \in Replacements : applied = Input("replace_matching_characters", r)

\* the function fn returns ret
Returned(fn, ret) ==
    /\ applied.fn = fn
    /\ ~applied.done
    /\ applied' = [applied EXCEPT !.ret = ret, !.done = TRUE]
    /\ UNCHANGED <<registry, rtd, pc, cur, log>>

FixYoutubeUrl == Returned("fix_youtube_url", fix_youtube_url(applied.arg))

FromUrl == Returned("from_url", from_url(UrlOf(applied.arg)))

Canonicalize ==
    Returned("canonicalize",
             canonicalize(applied.arg.d,
                          [k \in 1..Len(applied.arg.pages) |-> ResponseOf(applied.arg.pages[k])]))

GetDownloaderSessions ==
    Returned("get_downloader_sessions",
             get_downloader_sessions(Good(list_sessions_output(applied.arg))))

CheckFolder ==
    Returned("check_folder", check_folder(JBLOW, Good(file_listing_output(applied.arg))))

CheckStash == Returned("check_stash", check_stash(applied.arg.d, applied.arg.files))

\* dispatch_message for an authorized sender
DispatchMessage ==
    Returned("dispatch_message",
             dispatch_message(applied.arg.text, ALICE.nick, rtd, Pure(Ok(<<>>)), applied.arg.o))

\* the match of dispatch_message
Match == Returned("match", matching_arms(applied.arg))

ExtractUrl == Returned("extract_url", extract_url(CommandOf(applied.arg)))

\* the tests of from_url
MatchShapes == Returned("shapes", matching_shapes(MixedUrl(applied.arg)))

\* the arm of "!abort " for an authorized sender
Abort ==
    Returned("abort",
             dispatch_message(P_ABORT \o applied.arg.task, ALICE.nick, rtd, Pure(Ok(<<>>)),
                              [NoResponses EXCEPT !.proc = SendKeysAnswer(applied.arg)]))

ReplaceMatchingCharacters ==
    Returned("replace_matching_characters",
             replace_matching_characters(applied.arg.input_str, ALPHA_REGULAR,
                                         applied.arg.to_set))

NextFn ==
    \/ FixYoutubeUrl \/ FromUrl \/ Canonicalize \/ GetDownloaderSessions \/ CheckFolder
    \/ CheckStash \/ DispatchMessage \/ Match
    \/ ExtractUrl
    \/ MatchShapes
    \/ Abort
    \/ ReplaceMatchingCharacters

SpecFn == InitFn /\ [][NextFn]_vars

\* the function fn has returned
Applied(fn) == applied.fn = fn /\ applied.done

(***************************************************************************)
(* Classification and normalization.                                       *)
(***************************************************************************)
\* the id has the length and the characters of its kind
WellFormedId(kind, id) ==
    CASE kind = "Channel" ->
            Len(id) = 24 /\ SubSeq(id, 1, 2) = <<"U","C">> /\ AllIn(id, 3, 24, IdChars)
      [] kind = "User" -> Len(id) \in 1..20 /\ AllIn(id, 1, Len(id), Alnum)
      [] kind = "Playlist" ->
            /\ Len(id) \in {18, 34}
            /\ SubSeq(id, 1, 2) = <<"P","L">>
            /\ AllIn(id, 3, Len(id), IF Len(id) = 18 THEN UpperHex ELSE IdChars)
      [] kind = "Video" -> Len(id) = 11 /\ AllIn(id, 1, 11, IdChars)

\* the suffix left by the normalizer
NormalSuffix(parts) == IF parts.suffix \in PolymerNoise THEN <<>> ELSE parts.suffix

\* the characters that may follow the id of a url of the kind
Delimiters(kind) == IF kind \in {"Channel", "User"} THEN {"/", "#", "?"} ELSE {"#", "&"}

\* the url written from the parts is normalized to the canonical prefix
\* followed by one of the accepted shapes
AcceptedShape(parts) ==
    /\ parts.prefix \in YoutubePrefixes \cup {YOUTU_BE}
    /\ WellFormedId(parts.kind, parts.id)
    /\ \/ NormalSuffix(parts) = <<>>
       \/ NormalSuffix(parts)[1] \in Delimiters(parts.kind)

\* C11: from_url answers UnsupportedUrl for every url that is not normalized
\* to the canonical prefix followed by an accepted shape; an id that is too
\* short, too long or has a character outside its set is never accepted.
C11_MalformedIsUnsupported ==
    (Applied("from_url") /\ ~AcceptedShape(applied.arg))
        => ~applied.ret.ok /\ applied.ret.err.kind = "UnsupportedUrl"

\* a channel id of 23 characters after UC is refused
C11_Witness ==
    /\ Applied("from_url")
    /\ applied.arg.prefix = WWW_YOUTUBE
    /\ applied.arg.kind = "Channel"
    /\ applied.arg.id = Resize(CHANNEL_ID, 25)
    /\ applied.arg.suffix = <<>>
    /\ applied.ret = Err("UnsupportedUrl", UrlOf(applied.arg))

\* the trailing noise of a url of the kind
TrailingNoise(kind) == IF kind \in {"Channel", "User"} THEN PathNoise ELSE QueryNoise

\* C12: a url with a well-formed id is classified as its kind and id,
\* whichever trailing noise follows the id: nothing, /videos, ?, ?stuff, #,
\* #stuff for channels and users, nothing, &, &stuff, #, #stuff for playlists
\* and videos.
C12_NoiseIgnored ==
    (/\ Applied("from_url")
     /\ applied.arg.prefix \in YoutubePrefixes
     /\ WellFormedId(applied.arg.kind, applied.arg.id)
     /\ applied.arg.suffix \in TrailingNoise(applied.arg.kind))
        => applied.ret = Ok(Descriptor(applied.arg.kind, applied.arg.id))

C12_Witness ==
    /\ Applied("from_url")
    /\ applied.arg.kind = "Channel"
    /\ applied.arg.suffix = <<"/","v","i","d","e","o","s","#","s","t","u","f","f">>
    /\ applied.ret = Ok(Descriptor("Channel", CHANNEL_ID))

\* C13 as stated: normalizing a normalized text changes nothing.
C13_Idempotent ==
    Applied("fix_youtube_url") => fix_youtube_url(applied.ret) = applied.ret

(***************************************************************************)
(* Canonicalization.                                                       *)
(***************************************************************************)
\* the descriptor canonicalized and the k-th page fetch made for it
Canonicalized == applied.arg.d

Fetched(k) == applied.arg.pages[k]

\* the channel id a page holds: that of the meta tag, else that of the player
ChannelIdOf(parts) == IF parts.meta # None THEN parts.meta ELSE parts.player

\* C14: for a Channel or User descriptor whose page was fetched, a username
\* in the page gives kind User with that username as id and as folder, the
\* folder being that of the exception table for a username of the table;
\* without a username the result is kind Channel with the channel id of the
\* page as id and as folder.
C14_UserElseChannel ==
    (/\ Applied("canonicalize")
     /\ Canonicalized.kind \in {"Channel", "User"}
     /\ Fetched(1).how = "ok")
        => LET user == Fetched(1).parts.user
               id   == ChannelIdOf(Fetched(1).parts)
           IN  /\ user # None =>
                     applied.ret.res =
                        Ok(Canonical("User", user[1],
                                     IF user[1] \in DOMAIN FOLDER_EXCEPTIONS
                                     THEN FOLDER_EXCEPTIONS[user[1]] ELSE user[1]))
               /\ (user = None /\ id # None) =>
                     applied.ret.res = Ok(Canonical("Channel", id[1], id[1]))

\* a channel whose page names a username of the exception table
C14_Witness ==
    /\ Applied("canonicalize")
    /\ Canonicalized.kind = "Channel"
    /\ Fetched(1).how = "ok"
    /\ Fetched(1).parts.user = Some(TEDX_USER)
    /\ applied.ret.res = Ok(Canonical("User", TEDX_USER, <<"U","C","s","T","0","Y","I","q","w","n","p","J","C","M","-","m","x","7","-","g","S","A","4","Q">>))

\* canonicalizing the channel of the fetched video page, with the second fetch
ChannelOfVideo ==
    canonicalize(Descriptor("Channel", ChannelIdOf(Fetched(1).parts)[1]),
                 <<ResponseOf(Fetched(2))>>)

\* C15: for a Video descriptor whose page was fetched, the result is kind
\* Video with the id of the descriptor and the folder of the canonicalized
\* channel of the page, that channel's failure being the failure of the
\* video; a page without a channel id gives CouldNotGetChannelIdentifier
\* after that one fetch.
C15_VideoFolderOfChannel ==
    (/\ Applied("canonicalize")
     /\ Canonicalized.kind = "Video"
     /\ Fetched(1).how = "ok")
        => IF ChannelIdOf(Fetched(1).parts) = None
           THEN /\ applied.ret.res = Err("CouldNotGetChannelIdentifier", <<>>)
                /\ Len(applied.ret.calls) = 1
           ELSE /\ applied.ret.res =
                      IF ChannelOfVideo.res.ok
                      THEN Ok(Canonical("Video", Canonicalized.id, ChannelOfVideo.res.val.folder))
                      ELSE ChannelOfVideo.res
                /\ Len(applied.ret.calls) = 2

\* a video whose channel page names a username
C15_Witness ==
    /\ Applied("canonicalize")
    /\ Canonicalized.kind = "Video"
    /\ Fetched(1).how = "ok"
    /\ Fetched(1).parts.meta = Some(CHANNEL_ID)
    /\ Fetched(2).how = "ok"
    /\ Fetched(2).parts.user = Some(JBLOW)
    /\ applied.ret.res = Ok(Canonical("Video", VIDEO_ID, JBLOW))

\* the fetches canonicalize made
FetchesMade == 1..Len(applied.ret.calls)

\* C16 as stated: when a page fetch fails, canonicalize returns Io or Utf8,
\* and CouldNotGetChannelIdentifier is returned only when every page it
\* fetched was fetched.
C16_FetchFailurePassedThrough ==
    Applied("canonicalize")
        => /\ (\E k \in FetchesMade : Fetched(k).how # "ok")
                => applied.ret.res \in {Err("Io", <<>>), Err("Utf8", <<>>)}
           /\ applied.ret.res = Err("CouldNotGetChannelIdentifier", <<>>)
                => \A k \in FetchesMade : Fetched(k).how = "ok"

(***************************************************************************)
(* Session parsing and the stash filter.                                   *)
(***************************************************************************)
IsDownloader(session) == starts_with(session.name, SESSION_PREFIX)

\* the listed sessions of this program's launchers, in listing order
Downloaders == SelectSeq(applied.arg, IsDownloader)

\* C17: for a well-formed listing get_downloader_sessions returns, in
\* listing order, one session for each line whose name starts with YouTube-,
\* its identifier the name after that leading prefix and its start_time the
\* timestamp of the line; other lines give nothing.
C17_SessionsParsed ==
    Applied("get_downloader_sessions")
        => applied.ret.res =
              Ok([i \in 1..Len(Downloaders) |->
                    [identifier |-> From(Downloaders[i].name, Len(SESSION_PREFIX) + 1),
                     start_time |-> Downloaders[i].created]])

\* the listing "1000 YouTube-abc\n2000 unrelated-session\n"
C17_Witness ==
    /\ Applied("get_downloader_sessions")
    /\ applied.arg = <<[created |-> 1000, name |-> <<"Y","o","u","T","u","b","e","-","a","b","c">>],
                       [created |-> 2000, name |-> <<"u","n","r","e","l","a","t","e","d","-","s","e","s","s","i","o","n">>]>>
    /\ applied.ret.res = Ok(<<[identifier |-> <<"a","b","c">>, start_time |-> 1000]>>)

\* the name has a dot and the text after its last dot is a video extension
HasVideoExtension(name) ==
    \E j \in 1..Len(name) :
        /\ name[j] = "."
        /\ \A k \in (j + 1)..Len(name) : name[k] # "."
        /\ From(name, j + 1) \in VideoExtensions

VideosListed == SelectSeq(applied.arg, HasVideoExtension)

\* C18 as stated: check_folder reports the entries with a video extension,
\* in listing order: their number and the first four of them; an entry
\* without a dot is not among them.
C18_OnlyVideoExtensions ==
    Applied("check_folder")
        => applied.ret.res =
              Ok([fmt  |-> "stash",
                  args |-> <<to_string(Len(VideosListed)), JBLOW, logs_url(JBLOW)>>,
                  list |-> SubSeq(VideosListed, 1, Min({4, Len(VideosListed)}))])

(***************************************************************************)
(* Errors and unknown commands.                                            *)
(***************************************************************************)
\* the kinds of the errors reported for the command in hand
ErrorsReported == {log[i].body.fmt : i \in {j \in 1..Len(log) : IsErrorReply(log[j])}}

Taxonomy ==
    {"UnsupportedUrl", "NotAuthorized", "CouldNotGetChannelIdentifier", "InvalidTaskName",
     "NotImplemented", "ErrorListingFiles", "ErrorCreatingFolder", "Io", "Utf8"}

\* C19 as stated: every error a command produces is of one of the nine kinds.
C19_ClosedTaxonomy == InHand => ErrorsReported \subseteq Taxonomy

\* C19: every error a command produces is of one of the nine kinds or is
\* UrlTooLong, the error of an argument longer than 200 bytes.
C19_TaxonomyWithUrlTooLong == InHand => ErrorsReported \subseteq Taxonomy \cup {"UrlTooLong"}

\* an archive command with an argument of 201 bytes was answered
C19_Witness ==
    /\ InHand
    /\ pc = "done"
    /\ Text = P_A \o Long(201)
    /\ ErrorsReported = {"UrlTooLong"}

\* the text is no command
Unknown(text) ==
    /\ text \notin {<<"!","h","e","l","p">>, <<"!","s","t","a","t","u","s">>, <<"!","s","t","o","p","s","c","r","i","p","t","s">>, <<"!","c","o","n","t","s","c","r","i","p","t","s">>}
    /\ \A p \in {<<"!","s"," ">>, <<"!","a"," ">>, <<"!","s","a"," ">>, <<"!","a","v","e","r","y","b","i","g"," ">>, <<"!","s","a","v","e","r","y","b","i","g"," ">>, <<"!","a","b","o","r","t"," ">>} :
          ~HasAt(text, p, 1)

\* C20: a text that is none of the four exact commands and starts with none
\* of the six prefixes gets no reply, neither the warning of the
\* authorization check nor another, and starts no external program.
C20_UnknownIsSilent ==
    (InHand /\ Unknown(Text))
        => /\ pc = "done"
           /\ \A i \in 1..Len(log) : ~IsReply(log[i]) /\ ~IsCall(log[i])

\* a webchat sender wrote "!status x"
C20_Witness ==
    /\ InHand
    /\ pc = "done"
    /\ Webchat
    /\ Text = <<"!","s","t","a","t","u","s"," ","x">>
    /\ log = <<>>

(***************************************************************************)
(* Passive commands.                                                       *)
(***************************************************************************)
\* the commands that read only
Passive(text) == text \in {<<"!","h","e","l","p">>, <<"!","s","t","a","t","u","s">>} \/ starts_with(text, P_S)

\* the message as a sender of the same nickname outside webchat sends it
Ordinary(msg) == [msg EXCEPT !.prefix = Some(msg.nick[1] \o <<"!","u","@","h">>)]

IsWarning(e) == IsReply(e) /\ e.body.fmt = "NoWebchat"

\* C21: !help, !status and !s of a webchat sender get no not-authorized
\* warning and are handled, calls and replies, as for a sender outside
\* webchat.
C21_PassiveNeverChecked ==
    (InHand /\ Webchat /\ Passive(Text) /\ pc \in {"done", "crashed"})
        => /\ \A i \in 1..Len(log) : ~IsWarning(log[i])
           /\ log = handle_message(Ordinary(cur.msg), rtd, cur.o).effects

\* a webchat sender got the answer to !status
C21_Witness ==
    /\ InHand /\ Webchat /\ pc = "done"
    /\ Text = <<"!","s","t","a","t","u","s">>
    /\ Len(Replies) = 1
    /\ ~Replies[1].error

ExternalStep == pc' = pc /\ cur' = cur /\ log' = log

\* the launcher of the command in hand ran: it was called with the folder of
\* the session that appeared
LauncherStep ==
    /\ pc = "launching"
    /\ Len(log') > Len(log)
    /\ IsLaunch(log'[Len(log) + 1])
    /\ registry' = Append(registry, LaunchedSession(log'[Len(log) + 1].args[1], Now))

\* C23: !help, !status and !s call no launcher, no abort signal and no
\* script pause or resume, and the sessions change only by the external
\* tooling itself or in the step in which an admitted request runs its
\* launcher, which adds the session of its folder; a command that is
\* refused or fails before its launcher leaves the sessions as they are.
C23_RegistryOnlyRead ==
    [][/\ (InHand' /\ Passive(Text'))
            => \A i \in 1..Len(log') :
                  ~IsLaunch(log'[i]) /\ ~IsAbortSignal(log'[i]) /\ ~IsScripts(log'[i])
       /\ registry' # registry => ExternalStep \/ LauncherStep]_vars

\* an archive request was refused by the limit while a session ran
C23_Witness ==
    /\ ArchiveRan /\ pc = "done"
    /\ ~LauncherInvoked
    /\ Len(registry) = 1
    /\ Len(Replies) = 1
    /\ Replies[1].body.fmt = "CantArchiveTooManyTasks"

Dispatched == applied.arg.text

\* the descriptor the dispatched command resolves its URL to
Resolved == resolve(extract_url(Dispatched).val, applied.arg.o).res

\* the session list the dispatched command is answered with
Listed == get_downloader_sessions(applied.arg.o.sess).res

Launches == SelectSeq(applied.ret.calls, IsLaunch)

VeryBig == starts_with(Dispatched, P_AVERYBIG) \/ starts_with(Dispatched, P_SAVERYBIG)

\* the launcher call of a kind and a size variant
LaunchFor(d, very_big) ==
    IF d.kind = "Video"
    THEN Call(IF very_big THEN "grab-youtube-video-big-video" ELSE "grab-youtube-video",
              <<>>, <<d.folder, <<"h","t","t","p","s",":","/","/","w","w","w",".","y","o","u","t","u","b","e",".","c","o","m","/","w","a","t","c","h","?","v","=">> \o d.id>>)
    ELSE Call(IF very_big THEN "grab-youtube-channel-big-videos" ELSE "grab-youtube-channel",
              <<>>, <<d.folder, <<"9","9","9","9","9","9">>>>)

\* the request is admitted: its folder has no session and the sessions are
\* fewer than the limit
Admissible ==
    /\ extract_url(Dispatched).ok
    /\ Resolved.ok
    /\ Listed.ok
    /\ \A i \in 1..Len(Listed.val) : Listed.val[i].identifier # Resolved.val.folder
    /\ Len(Listed.val) < limit_for_user(ALICE.nick, rtd)

\* C25: an archive command calls at most one launcher, once; the call is
\* the video launcher with the folder and the canonical watch URL for kind
\* Video and the channel launcher with the folder and 999999 for the other
\* kinds, in the very-large variant for !averybig and !saverybig and the
\* normal one for !a and !sa; an admitted request makes that call.
C25_LauncherByKindAndSize ==
    Applied("dispatch_message")
        => /\ Len(Launches) <= 1
           /\ Len(Launches) = 1
                => /\ extract_url(Dispatched).ok
                   /\ Resolved.ok
                   /\ Launches[1] = LaunchFor(Resolved.val, VeryBig)
           /\ Admissible => Len(Launches) = 1

C25_Witness ==
    /\ Applied("dispatch_message")
    /\ Dispatched = P_SAVERYBIG \o URL_VIDEO
    /\ Admissible
    /\ Launches = <<Call("grab-youtube-video-big-video", <<>>,
                         <<JBLOW, <<"h","t","t","p","s",":","/","/","w","w","w",".","y","o","u","t","u","b","e",".","c","o","m","/","w","a","t","c","h","?","v","=","Y","d","S","d","v","I","R","k","k","D","Y">>>>)>>

\* the positions of the calls of the dispatched command
FetchAt == {k \in 1..Len(applied.ret.calls) : IsFetch(applied.ret.calls[k])}

ListAt == {k \in 1..Len(applied.ret.calls) : IsListSessions(applied.ret.calls[k])}

LaunchAt == {k \in 1..Len(applied.ret.calls) : IsLaunch(applied.ret.calls[k])}

\* C26: an archive command whose URL resolves reads the session list
\* exactly once, after every page fetch of the canonicalization; one whose
\* URL does not resolve never reads it.  A launcher is called only when the
\* list that was read holds no session of the folder, and it is the call
\* right after the read: no second read lies between them.
C26_CheckThenLaunch ==
    Applied("dispatch_message")
        => /\ Cardinality(ListAt) = IF extract_url(Dispatched).ok /\ Resolved.ok THEN 1 ELSE 0
           /\ \A f \in FetchAt, l \in ListAt : f < l
           /\ \A x \in LaunchAt :
                 /\ x - 1 \in ListAt
                 /\ Listed.ok
                 /\ \A i \in 1..Len(Listed.val) : Listed.val[i].identifier # Resolved.val.folder

\* a video was launched after two page fetches and the read of the list
C26_Witness ==
    /\ Applied("dispatch_message")
    /\ Dispatched = P_A \o URL_VIDEO
    /\ FetchAt = {1, 2}
    /\ ListAt = {3}
    /\ LaunchAt = {4}
    /\ Len(Listed.val) = MaxLimit

(***************************************************************************)
(* The admission race.                                                     *)
(***************************************************************************)
\* C27: once an archive request has read the session list and decided to
\* launch, the next step of the handler is the launcher call, whatever
\* sessions the registry has gained since the read; so a registry with two
\* sessions of one folder, and with more sessions than the limit, is reached.
C27_LaunchNotRechecked ==
    [][pc = "launching"
         => \/ ExternalStep /\ pc' = "launching"
            \/ /\ Len(log') > Len(log)
               /\ SubSeq(log', 1, Len(log)) = log
               /\ IsLaunch(log'[Len(log) + 1])
               /\ log'[Len(log) + 1].args[1] = Requested.folder]_vars

\* the list that was read held no session of the folder; a session of the
\* folder was started before the launcher ran: two sessions of one folder,
\* more sessions than the sender's limit
C27_Witness ==
    /\ ArchiveRan /\ pc = "done"
    /\ \E i \in 1..Len(log) : IsLaunch(log[i])
    /\ ~FolderRuns
    /\ Len(SessionsRead.val) < limit_for_user(Sender, rtd)
    /\ \E i, j \in 1..Len(registry) :
          /\ i < j
          /\ registry[i].name = SESSION_PREFIX \o Requested.folder
          /\ registry[j].name = registry[i].name
    /\ Len(registry) > limit_for_user(Sender, rtd)

(***************************************************************************)
(* Stash check and archive in one command.                                 *)
(***************************************************************************)
StashAndArchive == starts_with(Dispatched, P_SA) \/ starts_with(Dispatched, P_SAVERYBIG)

ListFolderAt == {k \in 1..Len(applied.ret.calls) : IsListFolder(applied.ret.calls[k])}

\* C28 as stated: when the URL of !sa or !saverybig resolves, there are two
\* replies, the first the result of the stash check, also when that is an
\* error, and archive has read the session list and launched if the request
\* is admitted; when the argument, the classification or the
\* canonicalization fails there is one error and neither the folder nor the
\* session list is read and no launcher is called.
C28_StashThenArchive ==
    (Applied("dispatch_message") /\ StashAndArchive)
        => IF extract_url(Dispatched).ok /\ Resolved.ok
           THEN /\ applied.ret.res.ok
                /\ Len(applied.ret.res.val) = 2
                /\ applied.ret.res.val[1] = check_stash(Resolved.val, applied.arg.o.ls).res
                /\ Cardinality(ListAt) = 1
                /\ Admissible => Cardinality(LaunchAt) = 1
           ELSE /\ ~applied.ret.res.ok
                /\ ~IsPanic(applied.ret.res)
                /\ ListFolderAt = {} /\ ListAt = {} /\ LaunchAt = {}

\* the same for session listings that can be parsed
C28_WellFormedListing ==
    (Applied("dispatch_message") /\ StashAndArchive /\ ~IsPanic(Listed))
        => IF extract_url(Dispatched).ok /\ Resolved.ok
           THEN /\ applied.ret.res.ok
                /\ Len(applied.ret.res.val) = 2
                /\ applied.ret.res.val[1] = check_stash(Resolved.val, applied.arg.o.ls).res
                /\ Cardinality(ListAt) = 1
                /\ Admissible => Cardinality(LaunchAt) = 1
           ELSE /\ ~applied.ret.res.ok
                /\ ~IsPanic(applied.ret.res)
                /\ ListFolderAt = {} /\ ListAt = {} /\ LaunchAt = {}

(***************************************************************************)
(* The patterns of the commands.                                           *)
(***************************************************************************)
\* every process answers without output
Quiet ==
    [pages |-> <<Good(<<>>), Good(<<>>)>>, ls |-> Good(<<>>), sess |-> Good(<<>>),
     proc |-> Good(<<>>), launch |-> Good(<<>>)]

SourceOrder == [k \in 1..10 |-> k]

ReverseOrder == [k \in 1..10 |-> 11 - k]

\* C29: a command text matches at most one of the four literals and the
\* six prefixes, and what dispatch_message does for it is what the match
\* does with its arms tested in source order and in the reverse order.
C29_PatternsExclusive ==
    Applied("match")
        => /\ Cardinality(applied.ret) <= 1
           /\ LET done == dispatch_message(applied.arg, ALICE.nick, rtd, Pure(Ok(<<>>)), Quiet)
              IN  /\ done = dispatch_in_order(SourceOrder, applied.arg, ALICE.nick, rtd,
                                              Pure(Ok(<<>>)), Quiet)
                  /\ done = dispatch_in_order(ReverseOrder, applied.arg, ALICE.nick, rtd,
                                              Pure(Ok(<<>>)), Quiet)

\* "!sa " followed by a playlist URL matches the arm of !sa and no other
C29_Witness ==
    /\ Applied("match")
    /\ applied.arg = P_SA \o URL_PLAYLIST
    /\ applied.ret = {7}

(***************************************************************************)
(* The page fetches of canonicalize.                                       *)
(***************************************************************************)
\* the URL the k-th call of canonicalize fetched
FetchedUrl(k) == applied.ret.calls[k].args[1]

\* C30: canonicalize returns after calls that are all page fetches: none
\* for a Playlist, whose result has the playlist id as id and as folder;
\* exactly one, of its own page, for a Channel or User; for a Video one of
\* the watch page and then at most one more, of the page of the channel
\* whose id the watch page holds.
C30_FetchesBoundedByKind ==
    Applied("canonicalize")
        => LET d == Canonicalized
               n == Len(applied.ret.calls)
           IN  /\ \A k \in 1..n : IsFetch(applied.ret.calls[k])
               /\ d.kind = "Playlist"
                    => n = 0 /\ applied.ret.res = Ok(Canonical("Playlist", d.id, d.id))
               /\ d.kind = "Channel"
                    => n = 1 /\ FetchedUrl(1) = <<"h","t","t","p","s",":","/","/","w","w","w",".","y","o","u","t","u","b","e",".","c","o","m","/","c","h","a","n","n","e","l","/">> \o d.id \o <<"/","v","i","d","e","o","s">>
               /\ d.kind = "User"
                    => n = 1 /\ FetchedUrl(1) = <<"h","t","t","p","s",":","/","/","w","w","w",".","y","o","u","t","u","b","e",".","c","o","m","/","u","s","e","r","/">> \o d.id \o <<"/","v","i","d","e","o","s">>
               /\ d.kind = "Video"
                    => /\ n \in {1, 2}
                       /\ FetchedUrl(1) = <<"h","t","t","p","s",":","/","/","w","w","w",".","y","o","u","t","u","b","e",".","c","o","m","/","w","a","t","c","h","?","v","=">> \o d.id
                       /\ n = 2 => /\ Fetched(1).how \in {"ok", "exit"}
                                   /\ ChannelIdOf(Fetched(1).parts) # None
                                   /\ FetchedUrl(2) = <<"h","t","t","p","s",":","/","/","w","w","w",".","y","o","u","t","u","b","e",".","c","o","m","/","c","h","a","n","n","e","l","/">>
                                                      \o ChannelIdOf(Fetched(1).parts)[1]
                                                      \o <<"/","v","i","d","e","o","s">>

\* a video whose two pages were fetched
C30_Witness ==
    /\ Applied("canonicalize")
    /\ Canonicalized.kind = "Video"
    /\ Len(applied.ret.calls) = 2
    /\ Fetched(2).how = "ok"
    /\ Fetched(2).parts.user = Some(JBLOW)
    /\ applied.ret.res = Ok(Canonical("Video", VIDEO_ID, JBLOW))

(***************************************************************************)
(* The argument of a prefix command.                                       *)
(***************************************************************************)
\* what dispatch_message does for the command the argument was taken from
DoneFor(parts) == dispatch_message(CommandOf(parts), ALICE.nick, rtd, Pure(Ok(<<>>)), Quiet)

\* C31: the argument of a prefix command is its second space-separated
\* token, whatever follows it, and the empty text when a second space
\* follows the command at once.  An argument of more than 200 bytes fails
\* with UrlTooLong and the command makes no call; one of at most 200 bytes
\* is returned as it is, and it is the folder !s lists, the task !abort
\* signals and the URL the archive commands resolve.
C31_SecondTokenAtMost200 ==
    Applied("extract_url")
        => LET parts == applied.arg
               done  == DoneFor(parts)
           IN  IF Len(parts.arg) > 200
               THEN /\ applied.ret = Err("UrlTooLong", <<>>)
                    /\ done = Ret(Err("UrlTooLong", <<>>), <<>>)
               ELSE /\ applied.ret = Ok(parts.arg)
                    /\ (parts.p = P_S /\ parts.arg \in {JBLOW, Long(199), Long(200)})
                         => done.calls = <<Call("ts", <<"ls", "-n", "YouTube", "-j", "-t">>,
                                                 <<parts.arg>>)>>
                    /\ (parts.p = P_ABORT /\ parts.arg \in {JBLOW, Long(199), Long(200)})
                         => done.calls = <<Call("tmux", <<"send-keys", "-t", "C-c">>,
                                                 <<<<"Y","o","u","T","u","b","e","-">> \o parts.arg>>)>>
                    /\ (parts.p \in ArchivePrefixes /\ parts.arg = URL_PLAYLIST)
                         => /\ Len(done.calls) > 0
                            /\ IsLaunch(done.calls[Len(done.calls)])
                            /\ done.calls[Len(done.calls)].args[1] = OLD_PLAYLIST_ID
                    /\ (parts.p \in ArchivePrefixes /\ parts.arg # URL_PLAYLIST)
                         => done = Ret(Err("UnsupportedUrl", fix_youtube_url(parts.arg)), <<>>)

\* an argument of exactly 200 bytes followed by more tokens is signalled
C31_Witness ==
    /\ Applied("extract_url")
    /\ applied.arg.p = P_ABORT
    /\ applied.arg.arg = Long(200)
    /\ applied.arg.tail = <<" ","a"," ","b">>
    /\ applied.ret = Ok(Long(200))
    /\ Len(DoneFor(applied.arg).calls) = 1

(***************************************************************************)
(* The order of the normalizer's rules.                                    *)
(***************************************************************************)
\* x with every "http://" replaced by "https://"
WithHttps(x) == replace(x, <<"h","t","t","p",":","/","/">>, <<"h","t","t","p","s",":","/","/">>)

\* C32: a text normalizes to what the same text written with https://
\* normalizes to, and a short link https://youtu.be/<rest> or
\* http://youtu.be/<rest> becomes https://www.youtube.com/watch?v=<rest>.
C32_SchemeRuleFirst ==
    Applied("fix_youtube_url")
        => /\ applied.ret = fix_youtube_url(WithHttps(applied.arg))
           /\ \A scheme \in {<<"h","t","t","p",":","/","/">>, <<"h","t","t","p","s",":","/","/">>}, rest \in {<<>>, <<"x">>} :
                 applied.arg = scheme \o <<"y","o","u","t","u",".","b","e","/">> \o rest
                    => applied.ret = <<"h","t","t","p","s",":","/","/","w","w","w",".","y","o","u","t","u","b","e",".","c","o","m","/","w","a","t","c","h","?","v","=">> \o rest

\* a short link written with http://
C32_Witness ==
    /\ Applied("fix_youtube_url")
    /\ applied.arg = <<"h","t","t","p",":","/","/","y","o","u","t","u",".","b","e","/","x">>
    /\ WithHttps(applied.arg) # applied.arg
    /\ applied.ret = <<"h","t","t","p","s",":","/","/","w","w","w",".","y","o","u","t","u","b","e",".","c","o","m","/","w","a","t","c","h","?","v","=","x">>

(***************************************************************************)
(* The shapes of the classifier.                                           *)
(***************************************************************************)
\* C33: the patterns that match one URL are of one kind; two patterns match
\* the same URL only when they are the two playlist patterns, and then the
\* id of the legacy pattern is returned; from_url returns what its tests
\* return in any order that keeps the legacy pattern before the new one.
C33_ShapesExclusive ==
    Applied("shapes")
        => LET raw == MixedUrl(applied.arg)
           IN  /\ Cardinality({KindOfShape[s] : s \in applied.ret}) <= 1
               /\ Cardinality(applied.ret) > 1 => applied.ret = {"old", "new"}
               /\ {"old", "new"} \subseteq applied.ret
                    => from_url(raw) = Ok(Descriptor("Playlist", OLD_PLAYLIST_ID))
               /\ from_url(raw) = from_url_in_order(Shapes, raw)
               /\ from_url(raw) = from_url_in_order(<<"user", "channel", "old", "new", "watch">>, raw)
               /\ from_url(raw) = from_url_in_order(<<"old", "user", "watch", "new", "channel">>, raw)

\* a playlist URL with a new id and then a legacy id matches both playlist
\* patterns
C33_Witness ==
    /\ Applied("shapes")
    /\ applied.arg.path = <<"p","l","a","y","l","i","s","t">>
    /\ applied.arg.query = <<<<"l","i","s","t","=">> \o NEW_PLAYLIST_ID, <<"l","i","s","t","=">> \o OLD_PLAYLIST_ID>>
    /\ applied.ret = {"old", "new"}
    /\ NEW_PLAYLIST_RE(MixedUrl(applied.arg)) = Some(NEW_PLAYLIST_ID)

(***************************************************************************)
(* Abort.                                                                  *)
(***************************************************************************)
\* C34: !abort with a valid task name makes one call, the interrupt sent to
\* the session YouTube-<task>, and reads no session list; when tmux could
\* be started the one reply is "Aborted <task>", whether the session of the
\* task is running or not.
C34_AbortUnconfirmed ==
    (Applied("abort") /\ assert_valid_task_name(applied.arg.task).ok)
        => /\ applied.ret.calls
                = <<Call("tmux", <<"send-keys", "-t", "C-c">>, <<<<"Y","o","u","T","u","b","e","-">> \o applied.arg.task>>)>>
           /\ \A k \in 1..Len(applied.ret.calls) : ~IsListSessions(applied.ret.calls[k])
           /\ applied.arg.started
                => applied.ret.res = Ok(<<Ok(Fmt("Aborted", <<applied.arg.task>>))>>)

\* the interrupt for a session that is not running is answered Aborted
C34_Witness ==
    /\ Applied("abort")
    /\ applied.arg.task = JBLOW
    /\ applied.arg.started /\ ~applied.arg.running
    /\ Len(applied.ret.calls) = 1
    /\ applied.ret.res = Ok(<<Ok(Fmt("Aborted", <<JBLOW>>))>>)

(***************************************************************************)
(* Highlighting.                                                           *)
(***************************************************************************)
\* C35: the output of replace_matching_characters has as many characters as
\* the input; at each position it holds the character of to_set at the
\* position the input character has in from_set, and the input character
\* itself when from_set does not hold it.
C35_CharacterwiseReplacement ==
    Applied("replace_matching_characters")
        => LET input_str == applied.arg.input_str
               to_set    == applied.arg.to_set
           IN  /\ Len(applied.ret) = Len(input_str)
               /\ \A j \in 1..Len(input_str) :
                     /\ \A i \in 1..Len(ALPHA_REGULAR) :
                           ALPHA_REGULAR[i] = input_str[j] => applied.ret[j] = to_set[i]
                     /\ (\A i \in 1..Len(ALPHA_REGULAR) : ALPHA_REGULAR[i] # input_str[j])
                           => applied.ret[j] = input_str[j]

\* the third case of the test of the source: _User0
C35_Witness ==
    /\ Applied("replace_matching_characters")
    /\ applied.arg.input_str = <<"_","U","s","e","r","0">>
    /\ applied.arg.to_set = ALPHA_FRAKTUR
    /\ applied.ret = <<"_", "fraktur:U", "fraktur:s", "fraktur:e", "fraktur:r", "0">>

====
